---- MODULE Spec2Model ----
(***************************************************************************)
(* A model of tp-detect: the weighted pattern catalog, the content         *)
(* scanner with its one-level base64 decode-and-rescan, the score and      *)
(* severity functions, the cloud collectors and the scan orchestrators.    *)
(*                                                                         *)
(* Text is a sequence of UTF-16 code units (integers), as a JavaScript     *)
(* string is; Str turns a tuple of one-character strings into such a text. *)
(***************************************************************************)
EXTENDS Integers, Sequences, FiniteSets, TLC

(***************************************************************************)
(* Characters                                                              *)
(***************************************************************************)
\* The printable ASCII characters, code units 32..126, in order (the grave
\* accent, code unit 96, by name).
Ascii ==
  << " ", "!", "\"", "#", "$", "%", "&", "'", "(", ")", "*", "+", ",", "-", ".", "/",
     "0", "1", "2", "3", "4", "5", "6", "7", "8", "9", ":", ";", "<", "=", ">", "?",
     "@", "A", "B", "C", "D", "E", "F", "G", "H", "I", "J", "K", "L", "M", "N", "O",
     "P", "Q", "R", "S", "T", "U", "V", "W", "X", "Y", "Z", "[", "\\", "]", "^", "_",
     "grave", "a", "b", "c", "d", "e", "f", "g", "h", "i", "j", "k", "l", "m", "n", "o",
     "p", "q", "r", "s", "t", "u", "v", "w", "x", "y", "z", "{", "|", "}", "~" >>

Ord(c) == 31 + (CHOOSE i \in DOMAIN Ascii : Ascii[i] = c)

Str(cs) == [i \in 1..Len(cs) |-> Ord(cs[i])]

Upper == Ord("A")..Ord("Z")
Lower == Ord("a")..Ord("z")
Digit == Ord("0")..Ord("9")

\* \w of a JavaScript regular expression: [A-Za-z0-9_]
WordChar == Upper \cup Lower \cup Digit \cup {Ord("_")}

\* \s of a JavaScript regular expression (WhiteSpace and LineTerminator)
Space == {9, 10, 11, 12, 13, 32, 160, 5760, 8232, 8233, 8239, 8287, 12288, 65279}
           \cup (8192..8202)

\* the line terminators, which "." does not match
LineTerminator == {10, 13, 8232, 8233}

\* the two cases of a letter (the i flag), the character itself otherwise
BothCases(c) ==
  IF c \in Upper THEN {c, c + 32}
  ELSE IF c \in Lower THEN {c, c - 32}
  ELSE {c}

Min(a, b) == IF a < b THEN a ELSE b

\* The value of Body at the value of e, which is worked out once.
With(e, Body(_)) == CHOOSE r \in {Body(x) : x \in {e}} : TRUE

\* the concatenation of the sequences of ss
Flatten(ss) ==
  With(ss, LAMBDA v :
    LET upTo[i \in 0..Len(v)] == IF i = 0 THEN <<>> ELSE upTo[i - 1] \o v[i]
    IN upTo[Len(v)])

(***************************************************************************)
(* Regular expressions, as the catalog uses them.  A pattern is a          *)
(* sequence of atoms:                                                      *)
(*   [k |-> "wb"]                       \b                                 *)
(*   [k |-> "cls", neg, set, min, max]  a character class with a greedy    *)
(*                                      quantifier; max = -1 is unbounded  *)
(*   [k |-> "alt", alts]                a capturing group, an alternation  *)
(*                                      of fixed runs of character classes *)
(***************************************************************************)
WB == [k |-> "wb"]

Cls(set, min, max) == [k |-> "cls", neg |-> FALSE, set |-> set, min |-> min, max |-> max]

NotCls(set, min, max) == [k |-> "cls", neg |-> TRUE, set |-> set, min |-> min, max |-> max]

Alt(alts) == [k |-> "alt", alts |-> alts]

\* a literal, case-sensitive
Lit(cs) == [i \in 1..Len(cs) |-> Cls({Ord(cs[i])}, 1, 1)]

\* a literal under the i flag
LitI(cs) == [i \in 1..Len(cs) |-> Cls(BothCases(Ord(cs[i])), 1, 1)]

\* an alternative of a group: a literal run, one singleton class per character
AltLit(cs) == [i \in 1..Len(cs) |-> {Ord(cs[i])}]

SpacePlus == <<Cls(Space, 1, -1)>>

SpaceStar == <<Cls(Space, 0, -1)>>

DotStar == <<NotCls(LineTerminator, 0, -1)>>

InClass(c, a) == (c \in a.set) # a.neg

IsWordAt(s, i) == i >= 1 /\ i <= Len(s) /\ s[i] \in WordChar

\* \b after pos characters of s
AtWordBoundary(s, pos) == IsWordAt(s, pos) # IsWordAt(s, pos + 1)

NoMatch == [ok |-> FALSE, end |-> 0, caps |-> <<>>]

\* how many characters from pos on are in class a, up to limit
RunLength(a, s, pos, limit) ==
  With(Min(limit, Len(s) - pos), LAMBDA most :
    CHOOSE n \in 0..most :
      /\ \A j \in 1..n : InClass(s[pos + j], a)
      /\ n = most \/ ~InClass(s[pos + n + 1], a))

\* does the run of classes alt match s after pos characters
RunAt(alt, s, pos) ==
  /\ pos + Len(alt) <= Len(s)
  /\ \A j \in 1..Len(alt) : s[pos + j] \in alt[j]

\* the largest member of a set of numbers that is not empty
Largest(ns) == CHOOSE n \in ns : \A m \in ns : m <= n

Smallest(ns) == CHOOSE n \in ns : \A m \in ns : n <= m

\* The backtracking matcher: atoms[k..] against s from offset pos, as
\* [ok, end, caps].  A greedy quantifier takes the longest repetition after
\* which the rest matches; a group takes its first alternative after which
\* the rest matches, and captures it.
MatchAtoms(atoms, k, s, pos) ==
  LET rest[i \in 1..(Len(atoms) + 1), p \in 0..Len(s)] ==
        IF i > Len(atoms) THEN [ok |-> TRUE, end |-> p, caps |-> <<>>]
        ELSE IF atoms[i].k = "wb"
        THEN IF AtWordBoundary(s, p) THEN rest[i + 1, p] ELSE NoMatch
        ELSE IF atoms[i].k = "cls"
        THEN With(RunLength(atoms[i], s, p, IF atoms[i].max < 0 THEN Len(s) ELSE atoms[i].max),
               LAMBDA run :
                 IF run < atoms[i].min THEN NoMatch
                 ELSE IF run = atoms[i].min THEN rest[i + 1, p + run]
                 ELSE With({c \in atoms[i].min..run : rest[i + 1, p + c].ok},
                        LAMBDA good :
                          IF good = {} THEN NoMatch ELSE rest[i + 1, p + Largest(good)]))
        ELSE With({j \in 1..Len(atoms[i].alts) :
                     /\ RunAt(atoms[i].alts[j], s, p)
                     /\ rest[i + 1, p + Len(atoms[i].alts[j])].ok},
               LAMBDA good :
                 IF good = {} THEN NoMatch
                 ELSE With(p + Len(atoms[i].alts[Smallest(good)]), LAMBDA q :
                        With(rest[i + 1, q], LAMBDA r :
                          [r EXCEPT !.caps = <<SubSeq(s, p + 1, q)>> \o r.caps])))
  IN rest[k, pos]

\* ExecFrom that tries offset from only, as a sticky expression does
ExecFrom_AtStart(atoms, s, from) ==
  With(MatchAtoms(atoms, 1, s, from), LAMBDA r :
    [ok |-> r.ok, start |-> from, end |-> r.end, caps |-> r.caps])

\* RegExp exec from lastIndex = from: the leftmost match, as
\* [ok, start, end, caps]
ExecFrom(atoms, s, from) ==
  With({st \in from..Len(s) : MatchAtoms(atoms, 1, s, st).ok}, LAMBDA starts :
    IF starts = {} THEN [ok |-> FALSE, start |-> 0, end |-> 0, caps |-> <<>>]
    ELSE With(Smallest(starts), LAMBDA start :
           With(MatchAtoms(atoms, 1, s, start), LAMBDA r :
             [ok |-> TRUE, start |-> start, end |-> r.end, caps |-> r.caps])))

\* String.prototype.match with a regular expression that has no g flag: null
\* (here the empty tuple) or the array of the first match and its captures
StringMatch(s, atoms) ==
  With(ExecFrom(atoms, s, 0), LAMBDA r :
    IF r.ok THEN <<SubSeq(s, r.start + 1, r.end)>> \o r.caps ELSE <<>>)

(***************************************************************************)
(* The pattern catalog                                                     *)
(***************************************************************************)
SetOf(cs) == {Ord(cs[i]) : i \in 1..Len(cs)}

\* [0-9a-fA-F]
HexDigit == Digit \cup (Ord("a")..Ord("f")) \cup (Ord("A")..Ord("F"))

\* [123456789ABCDEFGHJKLMNPQRSTUVWXYZabcdefghijkmnopqrstuvwxyz]
Base58 ==
  (Ord("1")..Ord("9")) \cup ((Upper \ SetOf(<<"I", "O">>)) \cup (Lower \ SetOf(<<"l">>)))

\* [a-zA-HJ-NP-Z0-9]
BitcoinChar == Lower \cup (Upper \ SetOf(<<"I", "O">>)) \cup Digit

\* Each rule: the text of its regular expression (what pattern.toString()
\* gives), the expression itself, its category and its weight.
detectionPatterns ==
  <<
    [pattern |-> "/\\bxmrig\\b/i",
     atoms |-> <<WB>> \o LitI(<<"x", "m", "r", "i", "g">>) \o <<WB>>,
     category |-> "miner_software", weight |-> 8],
    [pattern |-> "/\\bccminer\\b/i",
     atoms |-> <<WB>> \o LitI(<<"c", "c", "m", "i", "n", "e", "r">>) \o <<WB>>,
     category |-> "miner_software", weight |-> 8],
    [pattern |-> "/\\bcpuminer\\b/i",
     atoms |-> <<WB>> \o LitI(<<"c", "p", "u", "m", "i", "n", "e", "r">>) \o <<WB>>,
     category |-> "miner_software", weight |-> 8],
    [pattern |-> "/\\betherminer\\b/i",
     atoms |-> <<WB>> \o LitI(<<"e", "t", "h", "e", "r", "m", "i", "n", "e", "r">>) \o <<WB>>,
     category |-> "miner_software", weight |-> 8],
    [pattern |-> "/\\bclaymore\\b/i",
     atoms |-> <<WB>> \o LitI(<<"c", "l", "a", "y", "m", "o", "r", "e">>) \o <<WB>>,
     category |-> "miner_software", weight |-> 8],
    [pattern |-> "/\\bphoenixminer\\b/i",
     atoms |-> <<WB>> \o LitI(<<"p", "h", "o", "e", "n", "i", "x", "m", "i", "n", "e", "r">>) \o <<WB>>,
     category |-> "miner_software", weight |-> 8],
    [pattern |-> "/\\bgminer\\b/i",
     atoms |-> <<WB>> \o LitI(<<"g", "m", "i", "n", "e", "r">>) \o <<WB>>,
     category |-> "miner_software", weight |-> 8],
    [pattern |-> "/\\bnbminer\\b/i",
     atoms |-> <<WB>> \o LitI(<<"n", "b", "m", "i", "n", "e", "r">>) \o <<WB>>,
     category |-> "miner_software", weight |-> 8],
    [pattern |-> "/\\bteamredminer\\b/i",
     atoms |-> <<WB>> \o LitI(<<"t", "e", "a", "m", "r", "e", "d", "m", "i", "n", "e", "r">>) \o <<WB>>,
     category |-> "miner_software", weight |-> 8],
    [pattern |-> "/\\blolminer\\b/i",
     atoms |-> <<WB>> \o LitI(<<"l", "o", "l", "m", "i", "n", "e", "r">>) \o <<WB>>,
     category |-> "miner_software", weight |-> 8],
    [pattern |-> "/stratum\\+tcp:\\/\\//i",
     atoms |-> LitI(<<"s", "t", "r", "a", "t", "u", "m", "+", "t", "c", "p", ":", "/", "/">>),
     category |-> "mining_pools", weight |-> 9],
    [pattern |-> "/pool\\.supportxmr\\.com/i",
     atoms |-> LitI(<<"p", "o", "o", "l", ".", "s", "u", "p", "p", "o", "r", "t", "x", "m", "r", ".", "c", "o", "m">>),
     category |-> "mining_pools", weight |-> 9],
    [pattern |-> "/pool\\.minexmr\\.com/i",
     atoms |-> LitI(<<"p", "o", "o", "l", ".", "m", "i", "n", "e", "x", "m", "r", ".", "c", "o", "m">>),
     category |-> "mining_pools", weight |-> 9],
    [pattern |-> "/xmrpool\\.eu/i",
     atoms |-> LitI(<<"x", "m", "r", "p", "o", "o", "l", ".", "e", "u">>),
     category |-> "mining_pools", weight |-> 9],
    [pattern |-> "/nanopool\\.org/i",
     atoms |-> LitI(<<"n", "a", "n", "o", "p", "o", "o", "l", ".", "o", "r", "g">>),
     category |-> "mining_pools", weight |-> 9],
    [pattern |-> "/nicehash\\.com/i",
     atoms |-> LitI(<<"n", "i", "c", "e", "h", "a", "s", "h", ".", "c", "o", "m">>),
     category |-> "mining_pools", weight |-> 9],
    [pattern |-> "/ethermine\\.org/i",
     atoms |-> LitI(<<"e", "t", "h", "e", "r", "m", "i", "n", "e", ".", "o", "r", "g">>),
     category |-> "mining_pools", weight |-> 9],
    [pattern |-> "/f2pool\\.com/i",
     atoms |-> LitI(<<"f", "2", "p", "o", "o", "l", ".", "c", "o", "m">>),
     category |-> "mining_pools", weight |-> 9],
    [pattern |-> "/hiveon\\.net/i",
     atoms |-> LitI(<<"h", "i", "v", "e", "o", "n", ".", "n", "e", "t">>),
     category |-> "mining_pools", weight |-> 9],
    [pattern |-> "/flypool\\.org/i",
     atoms |-> LitI(<<"f", "l", "y", "p", "o", "o", "l", ".", "o", "r", "g">>),
     category |-> "mining_pools", weight |-> 9],
    [pattern |-> "/\\b4[0-9AB][123456789ABCDEFGHJKLMNPQRSTUVWXYZabcdefghijkmnopqrstuvwxyz]{93}\\b/",
     atoms |-> <<WB>> \o Lit(<<"4">>) \o <<Cls(Digit \cup SetOf(<<"A", "B">>), 1, 1), Cls(Base58, 93, 93), WB>>,
     category |-> "wallet_patterns", weight |-> 7],
    [pattern |-> "/\\b0x[a-fA-F0-9]{40}\\b/",
     atoms |-> <<WB>> \o Lit(<<"0", "x">>) \o <<Cls(HexDigit, 40, 40), WB>>,
     category |-> "wallet_patterns", weight |-> 7],
    [pattern |-> "/\\b(bc1|[13])[a-zA-HJ-NP-Z0-9]{25,39}\\b/",
     atoms |-> <<WB, Alt(<<AltLit(<<"b", "c", "1">>), <<SetOf(<<"1", "3">>)>>>>), Cls(BitcoinChar, 25, 39), WB>>,
     category |-> "wallet_patterns", weight |-> 7],
    [pattern |-> "/\\bt[a-zA-Z0-9]{33,34}\\b/",
     atoms |-> <<WB>> \o Lit(<<"t">>) \o <<Cls(Lower \cup Upper \cup Digit, 33, 34), WB>>,
     category |-> "wallet_patterns", weight |-> 7],
    [pattern |-> "/--algo=/i",
     atoms |-> LitI(<<"-", "-", "a", "l", "g", "o", "=">>),
     category |-> "miner_parameters", weight |-> 6],
    [pattern |-> "/-o\\s+stratum/i",
     atoms |-> LitI(<<"-", "o">>) \o SpacePlus \o LitI(<<"s", "t", "r", "a", "t", "u", "m">>),
     category |-> "miner_parameters", weight |-> 6],
    [pattern |-> "/-u\\s+wallet/i",
     atoms |-> LitI(<<"-", "u">>) \o SpacePlus \o LitI(<<"w", "a", "l", "l", "e", "t">>),
     category |-> "miner_parameters", weight |-> 6],
    [pattern |-> "/--cpu-priority=/i",
     atoms |-> LitI(<<"-", "-", "c", "p", "u", "-", "p", "r", "i", "o", "r", "i", "t", "y", "=">>),
     category |-> "miner_parameters", weight |-> 6],
    [pattern |-> "/--donate-level=/i",
     atoms |-> LitI(<<"-", "-", "d", "o", "n", "a", "t", "e", "-", "l", "e", "v", "e", "l", "=">>),
     category |-> "miner_parameters", weight |-> 6],
    [pattern |-> "/--threads=/i",
     atoms |-> LitI(<<"-", "-", "t", "h", "r", "e", "a", "d", "s", "=">>),
     category |-> "miner_parameters", weight |-> 6],
    [pattern |-> "/eval\\(atob\\(/i",
     atoms |-> LitI(<<"e", "v", "a", "l", "(", "a", "t", "o", "b", "(">>),
     category |-> "obfuscation_techniques", weight |-> 4],
    [pattern |-> "/eval\\(decodeURIComponent\\(/i",
     atoms |-> LitI(<<"e", "v", "a", "l", "(", "d", "e", "c", "o", "d", "e", "U", "R", "I", "C", "o", "m", "p", "o", "n", "e", "n", "t", "(">>),
     category |-> "obfuscation_techniques", weight |-> 4],
    [pattern |-> "/\\\\x[0-9a-fA-F]{2}/",
     atoms |-> Lit(<<"\\", "x">>) \o <<Cls(HexDigit, 2, 2)>>,
     category |-> "obfuscation_techniques", weight |-> 4],
    [pattern |-> "/nice\\s+(-20|-19|-18|-17|-16|-15)/i",
     atoms |-> LitI(<<"n", "i", "c", "e">>) \o SpacePlus \o <<Alt(<<AltLit(<<"-", "2", "0">>), AltLit(<<"-", "1", "9">>), AltLit(<<"-", "1", "8">>), AltLit(<<"-", "1", "7">>), AltLit(<<"-", "1", "6">>), AltLit(<<"-", "1", "5">>)>>)>>,
     category |-> "behavioral_indicators", weight |-> 5],
    [pattern |-> "/sysctl\\s+-w\\s+vm\\.nr_hugepages=/i",
     atoms |-> LitI(<<"s", "y", "s", "c", "t", "l">>) \o SpacePlus \o LitI(<<"-", "w">>) \o SpacePlus \o LitI(<<"v", "m", ".", "n", "r", "_", "h", "u", "g", "e", "p", "a", "g", "e", "s", "=">>),
     category |-> "behavioral_indicators", weight |-> 5],
    [pattern |-> "/ps\\s+-ef\\s+.*grep\\s+.*kill/i",
     atoms |-> LitI(<<"p", "s">>) \o SpacePlus \o LitI(<<"-", "e", "f">>) \o SpacePlus \o DotStar \o LitI(<<"g", "r", "e", "p">>) \o SpacePlus \o DotStar \o LitI(<<"k", "i", "l", "l">>),
     category |-> "behavioral_indicators", weight |-> 5],
    [pattern |-> "/curl\\s+.*\\|\\s*bash/i",
     atoms |-> LitI(<<"c", "u", "r", "l">>) \o SpacePlus \o DotStar \o LitI(<<"|">>) \o SpaceStar \o LitI(<<"b", "a", "s", "h">>),
     category |-> "network_indicators", weight |-> 3],
    [pattern |-> "/wget\\s+.*\\s*-O\\s+.*\\s*&&\\s+chmod\\s+.*\\s*&&/i",
     atoms |-> LitI(<<"w", "g", "e", "t">>) \o SpacePlus \o DotStar \o SpaceStar \o LitI(<<"-", "O">>) \o SpacePlus \o DotStar \o SpaceStar \o LitI(<<"&", "&">>) \o SpacePlus \o LitI(<<"c", "h", "m", "o", "d">>) \o SpacePlus \o DotStar \o SpaceStar \o LitI(<<"&", "&">>),
     category |-> "network_indicators", weight |-> 3]
  >>

(***************************************************************************)
(* Base64 detection and decoding                                           *)
(***************************************************************************)
\* [A-Za-z0-9+/=]
Base64Char == Upper \cup Lower \cup Digit \cup SetOf(<<"+", "/", "=">>)

\* isLikelyBase64 without the test of str.length % 4
isLikelyBase64_AnyLength(str) ==
  IF ~(Len(str) >= 1 /\ \A i \in 1..Len(str) : str[i] \in Base64Char) THEN FALSE
  ELSE IF Cardinality({str[i] : i \in 1..Len(str)}) < 6 THEN FALSE
  ELSE TRUE

isLikelyBase64(str) ==
  IF Len(str) % 4 # 0 THEN FALSE
  ELSE IF ~(Len(str) >= 1 /\ \A i \in 1..Len(str) : str[i] \in Base64Char) THEN FALSE
  ELSE IF Cardinality({str[i] : i \in 1..Len(str)}) < 6 THEN FALSE
  ELSE TRUE

\* The value of a base64 digit (both alphabets, as Buffer accepts them), -1
\* for any other character.
Unbase64(c) ==
  IF c \in Upper THEN c - Ord("A")
  ELSE IF c \in Lower THEN c - Ord("a") + 26
  ELSE IF c \in Digit THEN c - Ord("0") + 52
  ELSE IF c \in SetOf(<<"+", "-">>) THEN 62
  ELSE IF c \in SetOf(<<"/", "_">>) THEN 63
  ELSE -1

\* The digits Buffer.from(str, "base64") decodes: it skips characters that
\* are no base64 digits and stops at the first "=".
Sextets(str) ==
  LET pads == {i \in 1..Len(str) : str[i] = Ord("=")}
      stop == IF pads = {} THEN Len(str) + 1 ELSE Smallest(pads)
  IN With(SelectSeq(SubSeq(str, 1, stop - 1), LAMBDA c : Unbase64(c) >= 0), LAMBDA digits :
       [i \in 1..Len(digits) |-> Unbase64(digits[i])])

\* Four digits give three bytes; two left over give one byte, three give two,
\* one gives none.  v[g + 1 .. g + 4] is the group the byte comes from.
BytesOf(v) ==
  LET left == Len(v) % 4
      count == ((Len(v) \div 4) * 3) + (IF left = 0 THEN 0 ELSE left - 1)
      byte(g, j) ==
        IF j = 0 THEN (v[g + 1] * 4) + (v[g + 2] \div 16)
        ELSE IF j = 1 THEN ((v[g + 2] % 16) * 16) + (v[g + 3] \div 4)
        ELSE ((v[g + 3] % 4) * 64) + v[g + 4]
  IN [i \in 1..count |-> byte(((i - 1) \div 3) * 4, (i - 1) % 3)]

Base64Bytes(str) == With(Sextets(str), LAMBDA v : BytesOf(v))

\* U+FFFD, the replacement character
Replacement == <<65533>>

IsCont(b) == b >= 128 /\ b <= 191

\* The second byte a lead byte of a three- or four-byte sequence admits.
Second(b1) ==
  IF b1 = 224 THEN 160..191
  ELSE IF b1 = 237 THEN 128..159
  ELSE IF b1 = 240 THEN 144..191
  ELSE IF b1 = 244 THEN 128..143
  ELSE 128..191

\* A code point as UTF-16 code units.
Utf16(cp) ==
  IF cp < 65536 THEN <<cp>>
  ELSE <<55296 + ((cp - 65536) \div 1024), 56320 + ((cp - 65536) % 1024)>>

\* buf.toString("utf-8"): every maximal ill-formed part becomes U+FFFD.
\* from[i] is the text of the bytes from the i-th on.
Utf8Decode(bs) ==
  LET n == Len(bs)
      from[i \in 1..(n + 1)] ==
        IF i > n THEN <<>>
        ELSE
          LET b1 == bs[i]
              has(k) == i + k <= n
              b(k) == bs[i + k]
              bad(k) == Replacement \o from[i + k]
          IN
          IF b1 < 128 THEN <<b1>> \o from[i + 1]
          ELSE IF b1 >= 194 /\ b1 <= 223
          THEN IF has(1) /\ IsCont(b(1))
               THEN <<((b1 - 192) * 64) + (b(1) - 128)>> \o from[i + 2]
               ELSE bad(1)
          ELSE IF b1 >= 224 /\ b1 <= 239
          THEN IF has(1) /\ b(1) \in Second(b1)
               THEN IF has(2) /\ IsCont(b(2))
                    THEN <<((b1 - 224) * 4096) + ((b(1) - 128) * 64) + (b(2) - 128)>>
                           \o from[i + 3]
                    ELSE bad(2)
               ELSE bad(1)
          ELSE IF b1 >= 240 /\ b1 <= 244
          THEN IF has(1) /\ b(1) \in Second(b1)
               THEN IF has(2) /\ IsCont(b(2))
                    THEN IF has(3) /\ IsCont(b(3))
                         THEN Utf16(((b1 - 240) * 262144) + ((b(1) - 128) * 4096)
                                      + ((b(2) - 128) * 64) + (b(3) - 128)) \o from[i + 4]
                         ELSE bad(3)
                    ELSE bad(2)
               ELSE bad(1)
          ELSE bad(1)
  IN from[1]

\* [\x00-\x08\x0B\x0C\x0E-\x1F\x7F-\xFF]
Unprintable == (0..8) \cup {11, 12} \cup (14..31) \cup (127..255)

Null == [isNull |-> TRUE, value |-> <<>>]

tryDecodeBase64(str) ==
  With(Base64Bytes(str), LAMBDA bytes :
    With(Utf8Decode(bytes), LAMBDA decoded :
      IF \E i \in 1..Len(decoded) : decoded[i] \in Unprintable
      THEN Null
      ELSE [isNull |-> FALSE, value |-> decoded]))

\* a JavaScript truth test of a string or null
Truthy(d) == ~d.isNull /\ d.value # <<>>

(***************************************************************************)
(* The content scanner                                                     *)
(***************************************************************************)
\* content.split(/\s+/): the pieces between the maximal runs of white space,
\* with an empty piece before a leading run and after a trailing one
Split(s) ==
  LET n == Len(s)
      ws(i) == s[i] \in Space
      last(i) == CHOOSE j \in i..n : (\A m \in i..j : ~ws(m)) /\ (j = n \/ ws(j + 1))
  IN IF n = 0 THEN << <<>> >>
     ELSE With({i \in 1..n : ~ws(i) /\ (i = 1 \/ ws(i - 1))}, LAMBDA firsts :
            LET first(k) == CHOOSE i \in firsts : Cardinality({j \in firsts : j < i}) = k - 1
            IN (IF ws(1) THEN << <<>> >> ELSE <<>>)
                 \o [k \in 1..Cardinality(firsts) |-> SubSeq(s, first(k), last(first(k)))]
                 \o (IF ws(n) THEN << <<>> >> ELSE <<>>))

\* RuleMatches without the test of contentMatches: a rule that does not
\* match gives a Match with an empty literal
RuleMatches_NoNullTest(rule, content) ==
  With(StringMatch(content, rule.atoms), LAMBDA contentMatches :
    IF contentMatches = <<>>
    THEN <<[pattern |-> rule.pattern, match |-> <<>>,
            category |-> rule.category, weight |-> rule.weight]>>
    ELSE [j \in 1..Len(contentMatches) |->
            [pattern |-> rule.pattern, match |-> contentMatches[j],
             category |-> rule.category, weight |-> rule.weight]])

\* one Match for every element of the array content.match(pattern) returns
RuleMatches(rule, content) ==
  With(StringMatch(content, rule.atoms), LAMBDA contentMatches :
    [j \in 1..Len(contentMatches) |->
       [pattern |-> rule.pattern, match |-> contentMatches[j],
        category |-> rule.category, weight |-> rule.weight]])

\* the loop over the catalog
ScanRules(content) ==
  Flatten([r \in 1..Len(detectionPatterns) |-> RuleMatches(detectionPatterns[r], content)])

\* word.substring(0, 20) + "..."
Truncated(word) == SubSeq(word, 1, Min(20, Len(word))) \o Str(<<".", ".", ".">>)

SyntheticMatch(word) ==
  [pattern |-> "base64_encoded_content", match |-> Truncated(word),
   category |-> "obfuscation_techniques", weight |-> 4]

\* ShouldDecode for words longer than 20 only
ShouldDecode_Over20(word) == Len(word) > 20 /\ isLikelyBase64(word)

\* the test a word passes to be decoded
ShouldDecode(word) == Len(word) >= 20 /\ isLikelyBase64(word)

\* what a decoded word adds to the matches
WordMatches(word, decodedMatches) ==
  IF Len(decodedMatches) > 0 THEN <<SyntheticMatch(word)>> \o decodedMatches ELSE <<>>

\* NestedBase64Decode when the recursive call is given options as they are
NestedBase64Decode_Same(base64Decode) == base64Decode

\* the base64Decode option of the recursive call: { ...options, base64Decode: false }
NestedBase64Decode(base64Decode) == FALSE

RECURSIVE scanContent(_, _)
scanContent(content, base64Decode) ==
  LET ofWord(word) ==
        IF ShouldDecode(word)
        THEN With(tryDecodeBase64(word), LAMBDA decoded :
               IF Truthy(decoded)
               THEN With(scanContent(decoded.value, NestedBase64Decode(base64Decode)),
                      LAMBDA decodedMatches : WordMatches(word, decodedMatches))
               ELSE <<>>)
        ELSE <<>>
  IN ScanRules(content) \o
     (IF base64Decode
      THEN With(Split(content), LAMBDA words :
             Flatten([w \in 1..Len(words) |-> ofWord(words[w])]))
      ELSE <<>>)

SumWeights(matches) ==
  LET sum[i \in 0..Len(matches)] == IF i = 0 THEN 0 ELSE sum[i - 1] + matches[i].weight
  IN sum[Len(matches)]

\* matches.reduce((total, match) => total + match.weight, 0)
calculateScore(matches) == With(matches, LAMBDA ms : SumWeights(ms))

getSeverity(score) ==
  IF score >= 15 THEN "HIGH"
  ELSE IF score >= 8 THEN "MEDIUM"
  ELSE IF score > 0 THEN "LOW"
  ELSE "CLEAN"

\* the copy of src/scanners/aws-scanner
getSeverityAWS(score) ==
  IF score >= 15 THEN "HIGH"
  ELSE IF score >= 8 THEN "MEDIUM"
  ELSE IF score > 0 THEN "LOW"
  ELSE "CLEAN"

\* getSeverityGCP with MEDIUM starting above 8
getSeverityGCP_Above8(score) ==
  IF score >= 15 THEN "HIGH"
  ELSE IF score > 8 THEN "MEDIUM"
  ELSE IF score > 0 THEN "LOW"
  ELSE "CLEAN"

\* the copy of the GCP scanner
getSeverityGCP(score) ==
  IF score >= 15 THEN "HIGH"
  ELSE IF score >= 8 THEN "MEDIUM"
  ELSE IF score > 0 THEN "LOW"
  ELSE "CLEAN"

\* the copy of the Azure scanner
getSeverityAzure(score) ==
  IF score >= 15 THEN "HIGH"
  ELSE IF score >= 8 THEN "MEDIUM"
  ELSE IF score > 0 THEN "LOW"
  ELSE "CLEAN"

(***************************************************************************)
(* The texts the scanner is run on                                         *)
(***************************************************************************)
\* the scenario of the spec's testable properties
Scenario ==
  Str(<<"c", "u", "r", "l", " ", "-", "s", " ", "x", "m", "r", "i", "g", ";", " ", "s",
  "t", "r", "a", "t", "u", "m", "+", "t", "c", "p", ":", "/", "/", "p", "o", "o", "l",
  ".", "s", "u", "p", "p", "o", "r", "t", "x", "m", "r", ".", "c", "o", "m", ":", "3",
  "3", "3", "3">>)

\* base64 of "xmrig xmrig 123": 20 characters
TokenMiner ==
  Str(<<"e", "G", "1", "y", "a", "W", "c", "g", "e", "G", "1", "y", "a", "W", "c", "g",
  "M", "T", "I", "z">>)

\* base64 of TokenMiner: its decoded text is itself base64
TokenTwice ==
  Str(<<"Z", "U", "c", "x", "e", "W", "F", "X", "Y", "2", "d", "l", "R", "z", "F", "5",
  "Y", "V", "d", "j", "Z", "0", "1", "U", "S", "X", "o", "=">>)

\* base64 of "xmrig --algo=rx/0", one "=" of padding
TokenPadded ==
  Str(<<"e", "G", "1", "y", "a", "W", "c", "g", "L", "S", "1", "h", "b", "G", "d", "v",
  "P", "X", "J", "4", "L", "z", "A", "=">>)

\* base64 of "xmrig xmrig 1234" without its padding: 22 characters
TokenUnpadded ==
  Str(<<"e", "G", "1", "y", "a", "W", "c", "g", "e", "G", "1", "y", "a", "W", "c", "g",
  "M", "T", "I", "z", "N", "A">>)

\* base64 of the byte 0x01 and "xmrig xmrig 12"
TokenControl ==
  Str(<<"A", "X", "h", "t", "c", "m", "l", "n", "I", "H", "h", "t", "c", "m", "l", "n",
  "I", "D", "E", "y">>)

\* base64 of "xmrig", e-acute (U+00E9, as UTF-8) and "nice -20"
TokenLatin ==
  Str(<<"e", "G", "1", "y", "a", "W", "c", "g", "w", "6", "k", "g", "b", "m", "l", "j",
  "Z", "S", "A", "t", "M", "j", "A", "=">>)

\* base64 of "xmrig", U+0100 (as UTF-8) and "nice -20"
TokenWide ==
  Str(<<"e", "G", "1", "y", "a", "W", "c", "g", "x", "I", "A", "g", "b", "m", "l", "j",
  "Z", "S", "A", "t", "M", "j", "A", "=">>)

\* base64 of "xmrig", the byte 0xFF (no UTF-8) and "--algo= 12"
TokenInvalid ==
  Str(<<"e", "G", "1", "y", "a", "W", "c", "g", "/", "y", "A", "t", "L", "W", "F", "s",
  "Z", "2", "8", "9", "I", "D", "E", "y">>)

\* base64 of "hello world 123": nothing of the catalog in it
TokenClean ==
  Str(<<"a", "G", "V", "s", "b", "G", "8", "g", "d", "2", "9", "y", "b", "G", "Q", "g",
  "M", "T", "I", "z">>)

\* too few distinct characters
TokenLowEntropy ==
  Str(<<"A", "B", "A", "B", "A", "B", "A", "B", "A", "B", "A", "B", "A", "B", "A", "B",
  "A", "B", "A", "B", "A", "B", "A", "B">>)

\* 28 characters that read as a Bitcoin address and as base64
WalletBitcoin ==
  Str(<<"1", "B", "v", "B", "M", "S", "E", "Y", "s", "t", "W", "e", "t", "q", "T", "F",
  "n", "5", "A", "u", "4", "m", "4", "G", "F", "g", "7", "x">>)

\* an Ethereum address
WalletEthereum ==
  Str(<<"0", "x", "5", "2", "9", "0", "8", "4", "0", "0", "0", "9", "8", "5", "2", "7",
  "8", "8", "6", "E", "0", "F", "7", "0", "3", "0", "0", "6", "9", "8", "5", "7", "D",
  "2", "E", "4", "1", "6", "9", "E", "E", "7">>)

\* whole contents
Scenarios ==
  { Scenario, TokenMiner, TokenTwice, TokenPadded, TokenUnpadded, TokenControl,
    TokenLatin, TokenWide, TokenInvalid, TokenClean, TokenLowEntropy,
    WalletBitcoin, WalletEthereum }

\* pieces a content is put together from
Fragments ==
  << Str(<<"x", "m", "r", "i", "g">>),
     Str(<<"x", "m", "r", "i", "g", " ">>),
     Str(<<"n", "i", "c", "e", " ", "-", "2", "0">>),
     Str(<<"-", "-", "a", "l", "g", "o", "=">>),
     Str(<<"s">>),
     Str(<<" ">>),
     TokenMiner >>

\* the most pieces in a content
MaxFrags == 2

Contents ==
  Scenarios \cup
  UNION { { Flatten([i \in 1..n |-> Fragments[pick[i]]]) :
              pick \in [1..n -> 1..Len(Fragments)] } : n \in 0..MaxFrags }

(***************************************************************************)
(* The cloud collectors.  A collector runs its resource-type sub-scans in  *)
(* order, each in a try/catch of its own.  A sub-scan lists the resources  *)
(* of its type, reads one text of each and scans it; here it reads the     *)
(* first text the code scans of a resource.                                *)
(***************************************************************************)
\* content.substring(0, 200) + (content.length > 200 ? "..." : "")
Preview(content) ==
  SubSeq(content, 1, Min(200, Len(content)))
    \o (IF Len(content) > 200 THEN Str(<<".", ".", ".">>) ELSE <<>>)

\* A sub-scan: the function, the source prefix and the item type of its
\* Findings, and how it calls the provider:
\*   followsPages  the list call gives the resources of every page
\*   listCaught    an error of the list call is caught inside the sub-scan
\*   detailCall    the text of a resource comes from a call per resource
\*   detailCaught  an error of that call is caught inside the sub-scan
SubScan(name, prefix, itemType, followsPages, listCaught, detailCall, detailCaught) ==
  [name |-> name, prefix |-> prefix, itemType |-> itemType, followsPages |-> followsPages,
   listCaught |-> listCaught, detailCall |-> detailCall, detailCaught |-> detailCaught]

\* client.send(listCommand) is called once and NextToken is never read
scanAWS ==
  << SubScan("scanEC2Instances", "AWS EC2 Instance UserData: ", "EC2 UserData",
             FALSE, FALSE, FALSE, FALSE),
     SubScan("scanLambdaFunctions", "AWS Lambda Environment Variables: ", "Lambda Environment",
             FALSE, FALSE, TRUE, FALSE),
     SubScan("scanCloudFormationStacks", "AWS CloudFormation Stack: ", "CloudFormation Template",
             FALSE, FALSE, TRUE, TRUE),
     SubScan("scanECSTasks", "AWS ECS Task Definition: ", "ECS Task Definition",
             FALSE, FALSE, TRUE, TRUE),
     SubScan("scanSSMDocuments", "AWS SSM Document: ", "SSM Document",
             FALSE, FALSE, TRUE, TRUE) >>

\* getZones, getVMs and listFunctions page automatically
scanGCP ==
  << SubScan("scanComputeInstances", "GCP Compute Engine Metadata: ", "Compute Engine Metadata",
             TRUE, FALSE, TRUE, FALSE),
     SubScan("scanCloudFunctions", "GCP Cloud Function Environment Variables: ",
             "Cloud Function Environment", TRUE, TRUE, FALSE, FALSE) >>

\* no listing of several pages is drawn for these
scanAzure ==
  << SubScan("scanVirtualMachines", "Azure VM Custom Data: ", "VM Custom Data",
             FALSE, FALSE, FALSE, FALSE),
     SubScan("scanVMScaleSets", "Azure VM Scale Set Custom Data: ", "VMSS Custom Data",
             FALSE, FALSE, FALSE, FALSE),
     SubScan("scanContainerInstances", "Azure Container Command: ", "Container Command",
             FALSE, FALSE, FALSE, FALSE),
     SubScan("scanResourceGroups", "Azure Resource Properties: ", "Resource Properties",
             FALSE, FALSE, TRUE, TRUE) >>

CloudProviders == {"aws", "gcp", "azure"}

SubScansOf(provider) ==
  IF provider = "aws" THEN scanAWS
  ELSE IF provider = "gcp" THEN scanGCP
  ELSE scanAzure

\* each scanner module has its own copy of getSeverity
SeverityOf(provider, score) ==
  IF provider = "aws" THEN getSeverityAWS(score)
  ELSE IF provider = "gcp" THEN getSeverityGCP(score)
  ELSE IF provider = "azure" THEN getSeverityAzure(score)
  ELSE getSeverity(score)

\* a Finding is pushed whatever the scan returned
Emits_Always(matches) == TRUE

\* if (matches.length > 0) around every results.push of the scanners
Emits(matches) == Len(matches) > 0

\* a ScanResult whose score is the number of its matches
Finding_CountsMatches(provider, prefix, itemType, id, text, matches) ==
  [source |-> <<prefix, id>>, itemType |-> itemType, contentPreview |-> Preview(text),
   matches |-> matches, score |-> Len(matches),
   severity |-> SeverityOf(provider, Len(matches))]

\* the ScanResult a scanner pushes (without its timestamp)
Finding(provider, prefix, itemType, id, text, matches) ==
  [source |-> <<prefix, id>>, itemType |-> itemType, contentPreview |-> Preview(text),
   matches |-> matches, score |-> calculateScore(matches),
   severity |-> SeverityOf(provider, calculateScore(matches))]

\* the resources the loop of a sub-scan goes over
Listed(sub, listing) ==
  IF sub.followsPages THEN Flatten(listing.pages)
  ELSE IF listing.pages = <<>> THEN <<>>
  ELSE listing.pages[1]

\* One sub-scan on what the provider answers: whether it threw, the results
\* it returns if it did not, and the resources its loop reached.
RunSubScan(provider, sub, listing, options) ==
  IF listing.listFails
  THEN [threw |-> ~sub.listCaught, results |-> <<>>, visited |-> {}]
  ELSE With(Listed(sub, listing), LAMBDA resources :
         LET upTo[i \in 0..Len(resources)] ==
               IF i = 0 THEN [threw |-> FALSE, results |-> <<>>, visited |-> {}]
               ELSE With(upTo[i - 1], LAMBDA before :
                      IF before.threw THEN before
                      ELSE IF sub.detailCall /\ resources[i].detailFails
                      THEN [before EXCEPT !.threw = ~sub.detailCaught,
                                          !.visited = @ \cup {resources[i].id}]
                      ELSE With(scanContent(resources[i].text, options.base64Decode),
                             LAMBDA matches :
                               [before EXCEPT
                                  !.visited = @ \cup {resources[i].id},
                                  !.results =
                                    IF Emits(matches)
                                    THEN Append(@, Finding(provider, sub.prefix, sub.itemType,
                                                           resources[i].id, resources[i].text,
                                                           matches))
                                    ELSE @]))
         IN upTo[Len(resources)])

(***************************************************************************)
(* What the providers and the local system answer in one scan invocation   *)
(***************************************************************************)
Miner(id) ==
  [id |-> id, text |-> Str(<<"x", "m", "r", "i", "g">>), detailFails |-> FALSE]

\* a text of two miner names: score 16
Miners(id) ==
  [id |-> id, text |-> Str(<<"x", "m", "r", "i", "g", " ", "c", "c", "m", "i", "n", "e", "r">>),
   detailFails |-> FALSE]

Harmless(id) == [id |-> id, text |-> Str(<<"o", "k">>), detailFails |-> FALSE]

Unreadable(id) == [id |-> id, text |-> <<>>, detailFails |-> TRUE]

\* the answers to the list call of a sub-scan, by name
ListingOf(shape) ==
  IF shape = "listFails" THEN [listFails |-> TRUE, pages |-> <<>>]
  ELSE IF shape = "paged"
  THEN [listFails |-> FALSE, pages |-> << <<Harmless("r1")>>, <<Miners("r2")>> >>]
  ELSE IF shape = "detailFails"
  THEN [listFails |-> FALSE, pages |-> << <<Unreadable("r1"), Miner("r2")>> >>]
  ELSE [listFails |-> FALSE, pages |-> << <<Miner("r1")>> >>]

ShapesOf(provider, sub) ==
  {"ok", "listFails"}
    \cup (IF provider # "azure" THEN {"paged"} ELSE {})
    \cup (IF sub.detailCall THEN {"detailFails"} ELSE {})

SubScanKeys == UNION {{<<p, i>> : i \in 1..Len(SubScansOf(p))} : p \in CloudProviders}

\* Every sub-scan finds one miner, so does the local scan, and no call fails.
DefaultEnvironment ==
  [local |-> "miner",
   raises |-> [p \in CloudProviders |-> FALSE],
   subscriptions |-> "ok",
   shape |-> [k \in SubScanKeys |-> "ok"]]

\* the environments that differ from e in one answer
Deviated(e) ==
  {[e EXCEPT !.local = "clean"], [e EXCEPT !.subscriptions = "fails"]}
    \cup {[e EXCEPT !.raises[p] = TRUE] : p \in CloudProviders}
    \cup UNION {{[e EXCEPT !.shape[k] = s] : s \in ShapesOf(k[1], SubScansOf(k[1])[k[2]])}
                : k \in SubScanKeys}

\* the first sub-scan of scanAWS cannot list its resources
FirstListFails == [DefaultEnvironment EXCEPT !.shape[<<"aws", 1>>] = "listFails"]

\* no sub-scan can list its resources
EveryListFails == [DefaultEnvironment EXCEPT !.shape = [k \in SubScanKeys |-> "listFails"]]

\* The environments drawn: at most one answer differs from the default, or
\* one more than in FirstListFails, or every list call fails.
Environments ==
  {DefaultEnvironment, EveryListFails}
    \cup Deviated(DefaultEnvironment)
    \cup Deviated(FirstListFails)

\* the one file the local scan reads
LocalFile(e) ==
  IF e.local = "miner" THEN Miner("/etc/rc.local") ELSE Harmless("/etc/rc.local")

\* what scanLocalSystem returns: it catches every error of its own
scanLocalSystem(e, options) ==
  With(LocalFile(e), LAMBDA file :
    With(scanContent(file.text, options.base64Decode), LAMBDA matches :
      IF Emits(matches)
      THEN <<Finding("local", "File: ", "File", file.id, file.text, matches)>>
      ELSE <<>>))

(***************************************************************************)
(* results.sort of generateReport, which main of the command line calls    *)
(* with the results of the invocation                                      *)
(***************************************************************************)
\* const severityOrder = { HIGH: 3, MEDIUM: 2, LOW: 1, CLEAN: 0 }
severityOrder == [HIGH |-> 3, MEDIUM |-> 2, LOW |-> 1, CLEAN |-> 0]

\* the function given to results.sort
compare(a, b) ==
  LET severityDiff == severityOrder[b.severity] - severityOrder[a.severity] IN
  IF severityDiff # 0 THEN severityDiff ELSE b.score - a.score

\* x put into a sorted array, behind the elements that do not come after it
Insert(sorted, x) ==
  LET behind == {i \in 1..Len(sorted) : compare(sorted[i], x) > 0}
      place == IF behind = {} THEN Len(sorted) + 1
               ELSE CHOOSE i \in behind : \A j \in behind : i <= j
  IN SubSeq(sorted, 1, place - 1) \o <<x>> \o SubSeq(sorted, place, Len(sorted))

\* Array.prototype.sort with compare: an insertion sort, which is stable
sort(array) ==
  LET upTo[i \in 0..Len(array)] == IF i = 0 THEN <<>> ELSE Insert(upTo[i - 1], array[i])
  IN upTo[Len(array)]

(***************************************************************************)
(* The scan invocations: main of the command line, POST /api/scan          *)
(***************************************************************************)
ScanTypes == {"local", "aws", "gcp", "azure", "full"}

Requests ==
  {[kind |-> "cli", localOnly |-> b, scanType |-> "none"] : b \in BOOLEAN}
    \cup {[kind |-> "server", localOnly |-> t = "local", scanType |-> t] : t \in ScanTypes}

\* is the scan of a source part of the invocation
Selected(req, source) ==
  IF req.kind = "cli" THEN source = "local" \/ ~req.localOnly
  ELSE req.scanType \in {source, "full"}

NextStage(stage) ==
  IF stage = "local" THEN "aws"
  ELSE IF stage = "aws" THEN "gcp"
  ELSE IF stage = "gcp" THEN "azure"
  ELSE "report"

\* base64Decode is true unless the caller says otherwise
ScanOptions == [base64Decode |-> TRUE]

\* AfterSubScan without the try/catch: a sub-scan that throws ends the
\* collector's loop.
AfterSubScan_NoCatch(provider, i, threw) ==
  IF threw THEN Len(SubScansOf(provider)) + 1 ELSE i + 1

\* The try/catch around a sub-scan: the collector goes on with the next
\* sub-scan whether this one threw or not.
AfterSubScan(provider, i, threw) == i + 1

NotReturned == [returned |-> FALSE, results |-> <<>>]

(***************************************************************************)
(* State                                                                   *)
(***************************************************************************)
VARIABLES
  content,        \* the text given to the outermost call of scanContent
  base64Decode,   \* options.base64Decode of the outermost call
  stack,          \* the calls of scanContent in progress
  result,         \* what the outermost call returned
  pc,             \* "start", "scanning" or "done"
  score,          \* a score given to getSeverity
  severity,       \* what each copy of getSeverity returned for it
  request,        \* the scan invocation: command line or POST /api/scan
  env,            \* what the providers and the local system answer
  at,             \* where the invocation is
  running,        \* the collector in progress, or "none"
  next,           \* the sub-scan the collector runs next
  collected,      \* results of the collector in progress
  results,        \* results of the invocation
  outcome,        \* how the invocation ended, and the results it gave
  log,            \* the sub-scans and collectors whose error was logged
  ran,            \* the sub-scans that were called
  visited,        \* the resources the sub-scans reached
  returned,       \* what each collector returned
  raised,         \* the collectors that threw
  subject,        \* the source descriptor given to initiateTrace
  metadata,       \* metadata.json of the trace directory
  ipc,            \* where initiateTrace is
  tpc,            \* where the background task collectTraceData is
  failure,        \* the message of the error the background task caught
  errors,         \* the steps of the background task that raised an error
  unhandled,      \* a rejection of the background task that nothing handles
  polled,         \* the last answer of GET /api/trace/:traceId
  target,         \* the arguments of terminateMiner
  kpc,            \* where terminateMiner is
  calls,          \* the provider calls and commands terminateMiner issued
  termination,    \* how terminateMiner ended
  findings,       \* the results array given to generateReport
  format,         \* options.format
  rpc,            \* where generateReport is
  report,         \* the Findings the written report lists, in order
  hpc,            \* where the handler of POST /api/terminate is
  response,       \* the HTTP response of the handler
  events,         \* the events the handler broadcast with io.emit
  file,           \* the file given to scanFile
  fpc,            \* where scanFile is
  fileCalls,        \* the calls of the file system scanFile made
  pushed          \* the results array scanFile pushes to

scanVars == <<content, base64Decode, stack, result, pc>>

severityVars == <<score, severity>>

invocationVars ==
  <<request, env, at, running, next, collected, results, outcome, log, ran, visited,
    returned, raised>>

traceVars == <<subject, metadata, ipc, tpc, failure, errors, unhandled, polled>>

terminateVars == <<target, kpc, calls, termination>>

reportVars == <<findings, format, rpc, report>>

handlerVars == <<hpc, response, events>>

fileVars == <<file, fpc, fileCalls, pushed>>

laterVars == <<handlerVars, fileVars>>

\* what is done with the findings: trace, termination, report
followupVars == <<traceVars, terminateVars, reportVars, laterVars>>

vars == <<scanVars, severityVars, invocationVars, followupVars>>

(***************************************************************************)
(* scanContent, step by step.  stack holds one frame for every call of     *)
(* scanContent that has not returned, the innermost last.                  *)
(***************************************************************************)
Frame(c, b) ==
  [content |-> c, base64Decode |-> b, matches |-> <<>>, words |-> <<>>, w |-> 0,
   phase |-> "rules"]

Top == stack[Len(stack)]

SetTop(f) == [stack EXCEPT ![Len(stack)] = f]

InitScan ==
  /\ content \in Contents
  /\ base64Decode \in BOOLEAN
  /\ stack = <<>>
  /\ result = <<>>
  /\ pc = "start"
  \* no score is being classified, no invocation is taking place
  /\ score = 0
  /\ severity = <<>>
  /\ request = [kind |-> "none"]
  /\ env = DefaultEnvironment
  /\ at = "idle"
  /\ running = "none"
  /\ next = 0
  /\ collected = <<>>
  /\ results = <<>>
  /\ outcome = [kind |-> "none", results |-> <<>>]
  /\ log = {}
  /\ ran = {}
  /\ visited = {}
  /\ returned = <<>>
  /\ raised = {}
  \* no trace, no termination, no report
  /\ subject = <<>>
  /\ metadata = [state |-> "absent"]
  /\ ipc = "idle"
  /\ tpc = "idle"
  /\ failure = "none"
  /\ errors = {}
  /\ unhandled = FALSE
  /\ polled = [status |-> "none"]
  /\ target = [platform |-> "none"]
  /\ kpc = "idle"
  /\ calls = <<>>
  /\ termination = [kind |-> "none"]
  /\ findings = <<>>
  /\ format = "none"
  /\ rpc = "idle"
  /\ report = [written |-> FALSE]
  /\ hpc = "idle"
  /\ response = [status |-> "none"]
  /\ events = <<>>
  /\ file = [path |-> <<>>]
  /\ fpc = "idle"
  /\ fileCalls = <<>>
  /\ pushed = <<>>

\* the caller calls scanContent(content, options)
Enter ==
  /\ pc = "start"
  /\ stack' = <<Frame(content, base64Decode)>>
  /\ pc' = "scanning"
  /\ UNCHANGED <<content, base64Decode, result, severityVars, invocationVars, followupVars>>

\* the loop over the catalog, then the test of options.base64Decode
MatchPatterns ==
  /\ pc = "scanning"
  /\ Top.phase = "rules"
  /\ stack' = SetTop([Top EXCEPT
                        !.matches = ScanRules(Top.content),
                        !.words = IF Top.base64Decode THEN Split(Top.content) ELSE <<>>,
                        !.w = 1,
                        !.phase = IF Top.base64Decode THEN "words" ELSE "return"])
  /\ UNCHANGED <<content, base64Decode, result, pc, severityVars, invocationVars, followupVars>>

\* a word that is not decoded, or whose decoding gives nothing
SkipWord ==
  /\ pc = "scanning"
  /\ Top.phase = "words"
  /\ Top.w <= Len(Top.words)
  /\ ~(ShouldDecode(Top.words[Top.w]) /\ Truthy(tryDecodeBase64(Top.words[Top.w])))
  /\ stack' = SetTop([Top EXCEPT !.w = Top.w + 1])
  /\ UNCHANGED <<content, base64Decode, result, pc, severityVars, invocationVars, followupVars>>

\* a word that decodes: the recursive call on the decoded text
DecodeWord ==
  /\ pc = "scanning"
  /\ Top.phase = "words"
  /\ Top.w <= Len(Top.words)
  /\ ShouldDecode(Top.words[Top.w])
  /\ Truthy(tryDecodeBase64(Top.words[Top.w]))
  /\ stack' = Append(SetTop([Top EXCEPT !.phase = "call"]),
                     Frame(tryDecodeBase64(Top.words[Top.w]).value,
                           NestedBase64Decode(Top.base64Decode)))
  /\ UNCHANGED <<content, base64Decode, result, pc, severityVars, invocationVars, followupVars>>

\* the loop over the words ends
WordsDone ==
  /\ pc = "scanning"
  /\ Top.phase = "words"
  /\ Top.w > Len(Top.words)
  /\ stack' = SetTop([Top EXCEPT !.phase = "return"])
  /\ UNCHANGED <<content, base64Decode, result, pc, severityVars, invocationVars, followupVars>>

\* return matches: to the call that decoded a word, or to the caller
Return ==
  /\ pc = "scanning"
  /\ Top.phase = "return"
  /\ IF Len(stack) = 1
     THEN /\ result' = Top.matches
          /\ stack' = <<>>
          /\ pc' = "done"
     ELSE LET caller == stack[Len(stack) - 1] IN
          /\ stack' = [SubSeq(stack, 1, Len(stack) - 1) EXCEPT ![Len(stack) - 1] =
                         [caller EXCEPT
                            !.matches = caller.matches
                                          \o WordMatches(caller.words[caller.w], Top.matches),
                            !.w = caller.w + 1,
                            !.phase = "words"]]
          /\ UNCHANGED <<result, pc>>
  /\ UNCHANGED <<content, base64Decode, severityVars, invocationVars, followupVars>>

Init == InitScan

Next == Enter \/ MatchPatterns \/ SkipWord \/ DecodeWord \/ WordsDone \/ Return

Spec == Init /\ [][Next]_vars

\* scanContent is synchronous code: a call in progress runs on
FairSpec == Spec /\ WF_vars(Next)

(***************************************************************************)
(* getSeverity: a score is given to each of the four copies                *)
(***************************************************************************)
\* the largest score given to getSeverity
MaxScore == 30

\* how far below zero the scores given to getSeverity go
BelowZero == 3

Copies == {"local", "aws", "gcp", "azure"}

InitSeverity ==
  /\ score \in (0 - BelowZero)..MaxScore
  /\ severity = [c \in Copies |-> "unset"]
  \* no text is being scanned, no invocation is taking place
  /\ content = <<>>
  /\ base64Decode = FALSE
  /\ stack = <<>>
  /\ result = <<>>
  /\ pc = "idle"
  /\ request = [kind |-> "none"]
  /\ env = DefaultEnvironment
  /\ at = "idle"
  /\ running = "none"
  /\ next = 0
  /\ collected = <<>>
  /\ results = <<>>
  /\ outcome = [kind |-> "none", results |-> <<>>]
  /\ log = {}
  /\ ran = {}
  /\ visited = {}
  /\ returned = <<>>
  /\ raised = {}
  \* no trace, no termination, no report
  /\ subject = <<>>
  /\ metadata = [state |-> "absent"]
  /\ ipc = "idle"
  /\ tpc = "idle"
  /\ failure = "none"
  /\ errors = {}
  /\ unhandled = FALSE
  /\ polled = [status |-> "none"]
  /\ target = [platform |-> "none"]
  /\ kpc = "idle"
  /\ calls = <<>>
  /\ termination = [kind |-> "none"]
  /\ findings = <<>>
  /\ format = "none"
  /\ rpc = "idle"
  /\ report = [written |-> FALSE]
  /\ hpc = "idle"
  /\ response = [status |-> "none"]
  /\ events = <<>>
  /\ file = [path |-> <<>>]
  /\ fpc = "idle"
  /\ fileCalls = <<>>
  /\ pushed = <<>>

\* the local scanner classifies the score
ClassifyLocal ==
  /\ severity["local"] = "unset"
  /\ severity' = [severity EXCEPT !["local"] = getSeverity(score)]
  /\ UNCHANGED <<score, scanVars, invocationVars, followupVars>>

\* the AWS scanner classifies the score
ClassifyAWS ==
  /\ severity["aws"] = "unset"
  /\ severity' = [severity EXCEPT !["aws"] = getSeverityAWS(score)]
  /\ UNCHANGED <<score, scanVars, invocationVars, followupVars>>

\* the GCP scanner classifies the score
ClassifyGCP ==
  /\ severity["gcp"] = "unset"
  /\ severity' = [severity EXCEPT !["gcp"] = getSeverityGCP(score)]
  /\ UNCHANGED <<score, scanVars, invocationVars, followupVars>>

\* the Azure scanner classifies the score
ClassifyAzure ==
  /\ severity["azure"] = "unset"
  /\ severity' = [severity EXCEPT !["azure"] = getSeverityAzure(score)]
  /\ UNCHANGED <<score, scanVars, invocationVars, followupVars>>

NextSeverity == ClassifyLocal \/ ClassifyAWS \/ ClassifyGCP \/ ClassifyAzure

SpecSeverity == InitSeverity /\ [][NextSeverity]_vars

(***************************************************************************)
(* A scan invocation, step by step: one step for every collector call,     *)
(* sub-scan call, return and catch.                                        *)
(***************************************************************************)
InitInvocation ==
  /\ request \in Requests
  /\ env \in Environments
  /\ at = "start"
  /\ running = "none"
  /\ next = 0
  /\ collected = <<>>
  /\ results = <<>>
  /\ outcome = [kind |-> "none", results |-> <<>>]
  /\ log = {}
  /\ ran = {}
  /\ visited = {}
  /\ returned = [p \in CloudProviders |-> NotReturned]
  /\ raised = {}
  \* no trace, no termination, no report
  /\ subject = <<>>
  /\ metadata = [state |-> "absent"]
  /\ ipc = "idle"
  /\ tpc = "idle"
  /\ failure = "none"
  /\ errors = {}
  /\ unhandled = FALSE
  /\ polled = [status |-> "none"]
  /\ target = [platform |-> "none"]
  /\ kpc = "idle"
  /\ calls = <<>>
  /\ termination = [kind |-> "none"]
  /\ findings = <<>>
  /\ format = "none"
  /\ rpc = "idle"
  /\ report = [written |-> FALSE]
  /\ hpc = "idle"
  /\ response = [status |-> "none"]
  /\ events = <<>>
  /\ file = [path |-> <<>>]
  /\ fpc = "idle"
  /\ fileCalls = <<>>
  /\ pushed = <<>>
  \* no text is being scanned, no score is being classified
  /\ content = <<>>
  /\ base64Decode = FALSE
  /\ stack = <<>>
  /\ result = <<>>
  /\ pc = "idle"
  /\ score = 0
  /\ severity = <<>>

\* up to the first scan: the options, const results = []
Begin ==
  /\ at = "start"
  /\ at' = "local"
  /\ UNCHANGED <<request, env, running, next, collected, results, outcome, log, ran,
                 visited, returned, raised, scanVars, severityVars, followupVars>>

\* a source the invocation does not scan
SkipSource ==
  /\ at \in {"local"} \cup CloudProviders
  /\ running = "none"
  /\ ~Selected(request, at)
  /\ at' = NextStage(at)
  /\ UNCHANGED <<request, env, running, next, collected, results, outcome, log, ran,
                 visited, returned, raised, scanVars, severityVars, followupVars>>

\* results.push(...await scanLocalSystem(scanOptions))
ScanLocal ==
  /\ at = "local"
  /\ Selected(request, "local")
  /\ results' = results \o scanLocalSystem(env, ScanOptions)
  /\ at' = NextStage(at)
  /\ UNCHANGED <<request, env, running, next, collected, outcome, log, ran, visited,
                 returned, raised, scanVars, severityVars, followupVars>>

\* the collector is called and reaches its first sub-scan
EnterCollector ==
  /\ at \in CloudProviders
  /\ running = "none"
  /\ Selected(request, at)
  /\ ~env.raises[at]
  /\ ~(at = "azure" /\ env.subscriptions = "fails")
  /\ running' = at
  /\ next' = 1
  /\ collected' = <<>>
  /\ UNCHANGED <<request, env, at, results, outcome, log, ran, visited, returned, raised,
                 scanVars, severityVars, followupVars>>

\* scanAzure cannot list the subscriptions: it logs the error and returns
\* its empty results
NoSubscriptions ==
  /\ at = "azure"
  /\ running = "none"
  /\ Selected(request, at)
  /\ ~env.raises[at]
  /\ env.subscriptions = "fails"
  /\ log' = log \cup {<<at, 0>>}
  /\ returned' = [returned EXCEPT ![at] = [returned |-> TRUE, results |-> <<>>]]
  /\ at' = NextStage(at)
  /\ UNCHANGED <<request, env, running, next, collected, results, outcome, ran, visited,
                 raised, scanVars, severityVars, followupVars>>

\* main: the collector throws, the catch of its try logs the error
CollectorCaught ==
  /\ request.kind = "cli"
  /\ at \in CloudProviders
  /\ running = "none"
  /\ Selected(request, at)
  /\ env.raises[at]
  /\ raised' = raised \cup {at}
  /\ log' = log \cup {<<at, 0>>}
  /\ at' = NextStage(at)
  /\ UNCHANGED <<request, env, running, next, collected, results, outcome, ran, visited,
                 returned, scanVars, severityVars, followupVars>>

\* POST /api/scan: the collector throws, the catch of the handler answers
\* 500 with the error message
HandlerCaught ==
  /\ request.kind = "server"
  /\ at \in CloudProviders
  /\ running = "none"
  /\ Selected(request, at)
  /\ env.raises[at]
  /\ raised' = raised \cup {at}
  /\ log' = log \cup {<<at, 0>>}
  /\ outcome' = [kind |-> "error", results |-> <<>>]
  /\ at' = "done"
  /\ UNCHANGED <<request, env, running, next, collected, results, ran, visited, returned,
                 scanVars, severityVars, followupVars>>

\* what the sub-scan the collector runs next does
Current == RunSubScan(running, SubScansOf(running)[next], ListingOf(env.shape[<<running, next>>]),
                      ScanOptions)

\* a sub-scan returns: results.push(...its results)
SubScanReturns ==
  /\ running \in CloudProviders
  /\ next <= Len(SubScansOf(running))
  /\ \E r \in {Current} :
       /\ ~r.threw
       /\ collected' = collected \o r.results
       /\ visited' = visited \cup {<<running, next, id>> : id \in r.visited}
  /\ ran' = ran \cup {<<running, next>>}
  /\ next' = AfterSubScan(running, next, FALSE)
  /\ UNCHANGED <<request, env, at, running, results, outcome, log, returned, raised,
                 scanVars, severityVars, followupVars>>

\* a sub-scan throws: the catch of its try logs the error
SubScanThrows ==
  /\ running \in CloudProviders
  /\ next <= Len(SubScansOf(running))
  /\ \E r \in {Current} :
       /\ r.threw
       /\ visited' = visited \cup {<<running, next, id>> : id \in r.visited}
  /\ log' = log \cup {<<running, next>>}
  /\ ran' = ran \cup {<<running, next>>}
  /\ next' = AfterSubScan(running, next, TRUE)
  /\ UNCHANGED <<request, env, at, running, collected, results, outcome, returned, raised,
                 scanVars, severityVars, followupVars>>

\* the collector returns its results: results.push(...them)
CollectorReturns ==
  /\ running \in CloudProviders
  /\ next > Len(SubScansOf(running))
  /\ results' = results \o collected
  /\ returned' = [returned EXCEPT ![running] = [returned |-> TRUE, results |-> collected]]
  /\ running' = "none"
  /\ at' = NextStage(at)
  /\ UNCHANGED <<request, env, next, collected, outcome, log, ran, visited, raised,
                 scanVars, severityVars, followupVars>>

\* generateReport(results, scanOptions), or res.json({ success: true, results }):
\* results is the array the invocation gave, reported the array as results.sort
\* of generateReport leaves it
Report ==
  /\ at = "report"
  /\ outcome' = IF request.kind = "cli"
                THEN [kind |-> "report", results |-> results, reported |-> sort(results)]
                ELSE [kind |-> "json", results |-> results]
  /\ at' = "done"
  /\ UNCHANGED <<request, env, running, next, collected, results, log, ran, visited,
                 returned, raised, scanVars, severityVars, followupVars>>

NextInvocation ==
  \/ Begin
  \/ SkipSource
  \/ ScanLocal
  \/ EnterCollector
  \/ NoSubscriptions
  \/ CollectorCaught
  \/ HandlerCaught
  \/ SubScanReturns
  \/ SubScanThrows
  \/ CollectorReturns
  \/ Report

SpecInvocation == InitInvocation /\ [][NextInvocation]_vars

(***************************************************************************)
(* Properties of the scanner                                               *)
(***************************************************************************)
\* every non-overlapping occurrence of a regular expression in s from offset
\* from on, leftmost first
RECURSIVE OccurrencesFrom(_, _, _)
OccurrencesFrom(atoms, s, from) ==
  LET r == ExecFrom(atoms, s, from) IN
  IF ~r.ok THEN <<>>
  ELSE <<SubSeq(s, r.start + 1, r.end)>>
         \o OccurrencesFrom(atoms, s, IF r.end > r.start THEN r.end ELSE r.end + 1)

Occurrences(rule, s) == OccurrencesFrom(rule.atoms, s, 0)

MatchOf(rule, text) ==
  [pattern |-> rule.pattern, match |-> text, category |-> rule.category,
   weight |-> rule.weight]

MatchesOfRule(rule, matches) == SelectSeq(matches, LAMBDA m : m.pattern = rule.pattern)

\* C1: with base64 decoding off, the matches scanContent returns for a rule
\* are exactly one Match per non-overlapping occurrence of the rule in the
\* content, in order, each with the rule's category and weight and a whole
\* occurrence as its literal.
C1_OneMatchPerOccurrence ==
  (pc = "done" /\ ~base64Decode) =>
    \A r \in 1..Len(detectionPatterns) :
      LET rule == detectionPatterns[r]
          occ == Occurrences(rule, content)
      IN MatchesOfRule(rule, result) = [i \in 1..Len(occ) |-> MatchOf(rule, occ[i])]

RECURSIVE WeightedOccurrences(_, _)
WeightedOccurrences(r, s) ==
  IF r = 0 THEN 0
  ELSE (detectionPatterns[r].weight * Len(Occurrences(detectionPatterns[r], s)))
         + WeightedOccurrences(r - 1, s)

\* C2: with base64 decoding off, the score of the scan of a content is the
\* sum over the catalog of weight times the number of occurrences of the rule.
C2_ScoreSumsOccurrences ==
  (pc = "done" /\ ~base64Decode) =>
    calculateScore(result) = WeightedOccurrences(Len(detectionPatterns), content)

\* what Buffer.from(T, "base64").toString("utf-8") gives
DecodedText(T) == Utf8Decode(Base64Bytes(T))

\* a token as C3 describes it
IsToken(T) ==
  /\ Len(T) >= 20
  /\ \A i \in 1..Len(T) : T[i] \in Base64Char
  /\ Cardinality({T[i] : i \in 1..Len(T)}) >= 6
  /\ scanContent(DecodedText(T), FALSE) # <<>>

\* one synthetic Match for T, followed by the matches of the decoded text
HasDecodedMatches(T, matches) ==
  LET decodedMatches == scanContent(DecodedText(T), FALSE) IN
  /\ Cardinality({i \in 1..Len(matches) : matches[i].pattern = "base64_encoded_content"}) = 1
  /\ \E i \in 1..Len(matches) :
       /\ matches[i].pattern = "base64_encoded_content"
       /\ matches[i].category = "obfuscation_techniques"
       /\ matches[i].weight = 4
       /\ matches[i].match = SubSeq(T, 1, 20) \o Str(<<".", ".", ".">>)
       /\ SubSeq(matches, i + 1, i + Len(decodedMatches)) = decodedMatches

\* C3 as stated: every token of 20 or more base64 characters, 6 of them
\* distinct, whose decoded text has a catalog match, is reported with a
\* synthetic Match and the matches of its decoded text.
C3_AsStated ==
  (pc = "done" /\ base64Decode /\ IsToken(content)) => HasDecodedMatches(content, result)

\* C3 amended: the same for the tokens whose length is a multiple of 4 and
\* whose decoded text has no character of [\x00-\x08\x0B\x0C\x0E-\x1F\x7F-\xFF].
C3_TokenDecoded ==
  ( /\ pc = "done"
    /\ base64Decode
    /\ IsToken(content)
    /\ Len(content) % 4 = 0
    /\ \A i \in 1..Len(DecodedText(content)) : DecodedText(content)[i] \notin Unprintable )
  => HasDecodedMatches(content, result)

C3_Witness ==
  /\ pc = "done"
  /\ base64Decode
  /\ IsToken(content)
  /\ Len(content) % 4 = 0
  /\ \A i \in 1..Len(DecodedText(content)) : DecodedText(content)[i] \notin Unprintable
  /\ Len(result) >= 2

\* C4: at most two calls of scanContent are ever in progress, the inner one
\* runs with base64 decoding off and decodes no word, and the outermost call
\* returns.
C4_OneDecodeLevel ==
  /\ [](/\ Len(stack) <= 2
        /\ Len(stack) = 2 => (~stack[2].base64Decode /\ stack[2].phase # "call"))
  /\ <>(pc = "done")

\* the inner call has returned on a decoded text that is itself base64
C4_Witness ==
  /\ Len(stack) = 2
  /\ stack[2].phase = "return"
  /\ \E w \in 1..Len(Split(stack[2].content)) :
       /\ ShouldDecode(Split(stack[2].content)[w])
       /\ Truthy(tryDecodeBase64(Split(stack[2].content)[w]))

\* C6: the scan of the scenario's content gives exactly the xmrig, the
\* stratum+tcp:// and the pool.supportxmr.com match, score 26, severity HIGH,
\* with base64 decoding on or off.
C6_Scenario ==
  (pc = "done" /\ content = Scenario) =>
    /\ [i \in 1..Len(result) |-> <<result[i].pattern, result[i].match, result[i].weight>>]
         = << <<"/\\bxmrig\\b/i", Str(<<"x", "m", "r", "i", "g">>), 8>>,
              <<"/stratum\\+tcp:\\/\\//i",
                Str(<<"s", "t", "r", "a", "t", "u", "m", "+", "t", "c", "p", ":", "/", "/">>), 9>>,
              <<"/pool\\.supportxmr\\.com/i",
                Str(<<"p", "o", "o", "l", ".", "s", "u", "p", "p", "o", "r", "t", "x", "m",
                      "r", ".", "c", "o", "m">>), 9>> >>
    /\ calculateScore(result) = 26
    /\ getSeverity(calculateScore(result)) = "HIGH"

C6_Witness == pc = "done" /\ content = Scenario /\ base64Decode

\* C7: the scan of the empty string returns no match, whatever the options.
C7_EmptyContent == (pc = "done" /\ content = <<>>) => result = <<>>

C7_Witness == pc = "done" /\ content = <<>> /\ base64Decode

\* C5: every copy of getSeverity gives HIGH for a score of 15 or more,
\* MEDIUM from 8 to 14, LOW from 1 to 7 and CLEAN for 0, and the copies
\* that have classified a score, negative ones included, agree on it.
C5_SeverityTiers ==
  \A c \in DOMAIN severity :
    severity[c] # "unset" =>
      /\ score >= 15 => severity[c] = "HIGH"
      /\ (score >= 8 /\ score < 15) => severity[c] = "MEDIUM"
      /\ (score > 0 /\ score < 8) => severity[c] = "LOW"
      /\ score = 0 => severity[c] = "CLEAN"
      /\ \A d \in DOMAIN severity : severity[d] # "unset" => severity[d] = severity[c]

\* the four copies have classified a score on a threshold
C5_Witness ==
  /\ score \in {0, 7, 8, 14, 15}
  /\ DOMAIN severity = Copies
  /\ \A c \in Copies : severity[c] # "unset"

(***************************************************************************)
(* Properties of the collectors and of the scan invocations                *)
(***************************************************************************)
\* what the i-th sub-scan of a collector does on the answers of env
Outcome(provider, i) ==
  RunSubScan(provider, SubScansOf(provider)[i], ListingOf(env.shape[<<provider, i>>]),
             ScanOptions)

\* the results of the sub-scans 1..n of a collector that did not throw
ResultsUpTo(provider, n) ==
  Flatten([i \in 1..n |->
             With(Outcome(provider, i), LAMBDA r : IF r.threw THEN <<>> ELSE r.results)])

\* C8: a collector that was entered calls every one of its sub-scans,
\* whichever of them threw, returns the results of all that did not throw,
\* and does not throw itself.
C8_SubScanIsolation ==
  /\ running \in CloudProviders =>
       /\ \A i \in 1..Len(SubScansOf(running)) : (i < next) = (<<running, i>> \in ran)
       /\ collected = ResultsUpTo(running, next - 1)
  /\ \A p \in DOMAIN returned :
       (returned[p].returned /\ env.subscriptions = "ok") =>
         /\ \A i \in 1..Len(SubScansOf(p)) : <<p, i>> \in ran
         /\ at = NextStage(p) => returned[p].results = ResultsUpTo(p, Len(SubScansOf(p)))
  /\ \A p \in raised : env.raises[p]

\* a collector has returned the results of its other sub-scans after one of
\* its sub-scans threw
C8_Witness ==
  \E p \in DOMAIN returned :
    /\ returned[p].returned
    /\ returned[p].results # <<>>
    /\ \E i \in 1..Len(SubScansOf(p)) : Outcome(p, i).threw /\ <<p, i>> \in log

\* is part one stretch of list
Contains(list, part) ==
  \E i \in 0..(Len(list) - Len(part)) : SubSeq(list, i + 1, i + Len(part)) = part

\* C9: when an invocation ends, every collector it selects that did not
\* throw has run, and its results, like those of the local scan, are in the
\* results the invocation gives.
C9_ProviderIsolation ==
  at = "done" =>
    /\ Selected(request, "local") =>
         Contains(outcome.results, scanLocalSystem(env, ScanOptions))
    /\ \A p \in CloudProviders :
         (Selected(request, p) /\ ~env.raises[p]) =>
           /\ returned[p].returned
           /\ Contains(outcome.results, returned[p].results)

\* C10: a sub-scan whose list call succeeded and that returned has reached
\* the resources of every page of the listing.
C10_EveryPageVisited ==
  \A k \in ran :
    (k \notin log /\ ~ListingOf(env.shape[k]).listFails) =>
      \A pg \in 1..Len(ListingOf(env.shape[k]).pages) :
        \A j \in 1..Len(ListingOf(env.shape[k]).pages[pg]) :
          <<k[1], k[2], ListingOf(env.shape[k]).pages[pg][j].id>> \in visited

(***************************************************************************)
(* Forensic trace: initiateTrace and the background task collectTraceData. *)
(* One step of the model is the code between two awaits.  A call of the    *)
(* file system, of a command or of the logger either returns or throws.    *)
(***************************************************************************)
\* String.prototype.includes
Includes(s, part) ==
  \E i \in 0..(Len(s) - Len(part)) : SubSeq(s, i + 1, i + Len(part)) = part

\* the source descriptors a trace is asked for
TraceSources ==
  { Str(<<"A", "W", "S", " ", "E", "C", "2", " ", "I", "n", "s", "t", "a", "n", "c", "e">>),
    Str(<<"G", "C", "P", " ", "C", "o", "m", "p", "u", "t", "e", " ", "E", "n", "g", "i", "n", "e">>),
    Str(<<"A", "z", "u", "r", "e", " ", "V", "M">>),
    Str(<<"P", "r", "o", "c", "e", "s", "s">>) }

\* the collector collectTraceData chooses for a source
TraceCollector(source) ==
  IF Includes(source, Str(<<"A", "W", "S">>)) THEN "aws"
  ELSE IF Includes(source, Str(<<"G", "C", "P">>)) THEN "gcp"
  ELSE IF Includes(source, Str(<<"A", "z", "u", "r", "e">>)) THEN "azure"
  ELSE "local"

\* metadata.json as initiateTrace writes it
InitialMetadata == [state |-> "file", status |-> "initiated", error |-> "none"]

\* the status a reader of metadata.json finds: a status, "absent", or "torn"
\* for a file that a failed write left without its content
StatusOf(md) == IF md.state = "file" THEN md.status ELSE md.state

\* How a call of updateTraceStatus can go: "ok"; "fails" when readFile,
\* JSON.parse or writeFile throws and the file is as before; "torn" when
\* writeFile throws after it emptied the file.
UpdateOutcomes(md) == IF md.state = "file" THEN {"ok", "fails", "torn"} ELSE {"fails"}

\* metadata.json after updateTraceStatus(traceDir, status, error); the error
\* it catches is printed and not thrown
updateTraceStatus(md, status, error, how) ==
  IF how = "ok"
  THEN [md EXCEPT !.status = status,
                  !.error = IF error # "none" THEN error ELSE md.error]
  ELSE IF how = "torn" THEN [state |-> "torn"]
  ELSE md

\* the return of initiateTrace does not await the task it started
ReturnsWhen_Awaited(task) == task = "done"

ReturnsWhen(task) == task # "idle"

\* A function whose body is try { work } catch { logger.error; writeFile of
\* an error file }: what it raised, and the message of the error that leaves
\* it ("none" when none does).
Guarded(message, work, handler) ==
  IF work = "ok" THEN [raised |-> {}, thrown |-> "none"]
  ELSE IF handler = "ok" THEN [raised |-> {message}, thrown |-> "none"]
  ELSE [raised |-> {message, handler}, thrown |-> handler]

\* how the catch block of such a function can go
HandlerOutcomes == {"ok", "log failed", "error file failed"}

\* progress: Math.floor(Math.random() * 100), some of its values
Progress == {0, 50, 99}

InitTrace ==
  /\ subject \in TraceSources
  /\ metadata = [state |-> "absent"]
  /\ ipc = "start"
  /\ tpc = "idle"
  /\ failure = "none"
  /\ errors = {}
  /\ unhandled = FALSE
  /\ polled = [status |-> "none"]
  \* nothing else takes place
  /\ content = <<>>
  /\ base64Decode = FALSE
  /\ stack = <<>>
  /\ result = <<>>
  /\ pc = "idle"
  /\ score = 0
  /\ severity = <<>>
  /\ request = [kind |-> "none"]
  /\ env = DefaultEnvironment
  /\ at = "idle"
  /\ running = "none"
  /\ next = 0
  /\ collected = <<>>
  /\ results = <<>>
  /\ outcome = [kind |-> "none", results |-> <<>>]
  /\ log = {}
  /\ ran = {}
  /\ visited = {}
  /\ returned = <<>>
  /\ raised = {}
  /\ target = [platform |-> "none"]
  /\ kpc = "idle"
  /\ calls = <<>>
  /\ termination = [kind |-> "none"]
  /\ findings = <<>>
  /\ format = "none"
  /\ rpc = "idle"
  /\ report = [written |-> FALSE]
  /\ hpc = "idle"
  /\ response = [status |-> "none"]
  /\ events = <<>>
  /\ file = [path |-> <<>>]
  /\ fpc = "idle"
  /\ fileCalls = <<>>
  /\ pushed = <<>>

\* initiateTrace up to mkdir: logger.info, outside the try, and mkdir
BeginTrace ==
  /\ ipc = "start"
  /\ \E how \in {"ok", "log failed", "mkdir failed"} :
       ipc' = IF how = "ok" THEN "made" ELSE "threw"
  /\ UNCHANGED <<subject, metadata, tpc, failure, errors, unhandled, polled>>
  /\ UNCHANGED <<scanVars, severityVars, invocationVars, terminateVars, reportVars, laterVars>>

\* WriteMetadata with the call of collectTraceData outside the try: the task
\* is started whether writeFile threw or not
WriteMetadata_SpawnsAnyway ==
  /\ ipc = "made"
  /\ \E how \in {"ok", "fails", "torn"} :
       IF how = "ok"
       THEN /\ metadata' = InitialMetadata
            /\ ipc' = "spawned"
            /\ tpc' = "begin"
       ELSE /\ metadata' = IF how = "torn" THEN [state |-> "torn"] ELSE metadata
            /\ ipc' = "threw"
            /\ tpc' = "begin"
  /\ UNCHANGED <<subject, failure, errors, unhandled, polled>>
  /\ UNCHANGED <<scanVars, severityVars, invocationVars, terminateVars, reportVars, laterVars>>

\* writeFile of metadata.json, then the call of collectTraceData
WriteMetadata ==
  /\ ipc = "made"
  /\ \E how \in {"ok", "fails", "torn"} :
       IF how = "ok"
       THEN /\ metadata' = InitialMetadata
            /\ ipc' = "spawned"
            /\ tpc' = "begin"
       ELSE /\ metadata' = IF how = "torn" THEN [state |-> "torn"] ELSE metadata
            /\ ipc' = "threw"
            /\ tpc' = tpc
  /\ UNCHANGED <<subject, failure, errors, unhandled, polled>>
  /\ UNCHANGED <<scanVars, severityVars, invocationVars, terminateVars, reportVars, laterVars>>

\* return traceId
InitiateReturns ==
  /\ ipc = "spawned"
  /\ ReturnsWhen(tpc)
  /\ ipc' = "returned"
  /\ UNCHANGED <<subject, metadata, tpc, failure, errors, unhandled, polled>>
  /\ UNCHANGED <<scanVars, severityVars, invocationVars, terminateVars, reportVars, laterVars>>

\* the error msg, raised inside the try of collectTraceData, reaches its catch
Caught(msg) ==
  /\ tpc' = "caught"
  /\ failure' = msg

\* collectTraceData: logger.info, then the call of updateTraceStatus
StartCollection ==
  /\ tpc = "begin"
  /\ \E logs \in BOOLEAN :
       IF logs
       THEN /\ tpc' = "setCollecting"
            /\ UNCHANGED <<failure, errors>>
       ELSE /\ Caught("log failed")
            /\ errors' = errors \cup {"log failed"}
  /\ UNCHANGED <<subject, metadata, ipc, unhandled, polled>>
  /\ UNCHANGED <<scanVars, severityVars, invocationVars, terminateVars, reportVars, laterVars>>

\* await updateTraceStatus(traceDir, "collecting")
SetCollecting ==
  /\ tpc = "setCollecting"
  /\ \E how \in UpdateOutcomes(metadata) :
       metadata' = updateTraceStatus(metadata, "collecting", "none", how)
  /\ tpc' = "collect"
  /\ UNCHANGED <<subject, ipc, failure, errors, unhandled, polled>>
  /\ UNCHANGED <<scanVars, severityVars, invocationVars, terminateVars, reportVars, laterVars>>

\* collectAWSTraceData, collectGCPTraceData, collectAzureTraceData: writeFile
\* of a placeholder and logger.info, with no try
CollectCloud ==
  /\ tpc = "collect"
  /\ TraceCollector(subject) \in {"aws", "gcp", "azure"}
  /\ \E how \in {"ok", "collection failed", "log failed"} :
       IF how = "ok"
       THEN /\ tpc' = "analyze"
            /\ UNCHANGED <<failure, errors>>
       ELSE /\ Caught(how)
            /\ errors' = errors \cup {how}
  /\ UNCHANGED <<subject, metadata, ipc, unhandled, polled>>
  /\ UNCHANGED <<scanVars, severityVars, invocationVars, terminateVars, reportVars, laterVars>>

\* what follows a function of the shape of Guarded: the next step of the
\* try of collectTraceData, or its catch
AfterGuarded(g, then) ==
  /\ errors' = errors \cup g.raised
  /\ IF g.thrown = "none"
     THEN /\ tpc' = then
          /\ failure' = failure
     ELSE Caught(g.thrown)

\* collectLocalTraceData: the commands (ps, lsof, netstat, pstree, systemctl,
\* tail) and the writes of their output
CollectLocal ==
  /\ tpc = "collect"
  /\ TraceCollector(subject) = "local"
  /\ \E work \in {"ok", "fails"}, handler \in HandlerOutcomes :
       AfterGuarded(Guarded("collection failed", work, handler), "analyze")
  /\ UNCHANGED <<subject, metadata, ipc, unhandled, polled>>
  /\ UNCHANGED <<scanVars, severityVars, invocationVars, terminateVars, reportVars, laterVars>>

\* analyzeTraceData: the write of analysis.json between two logger.info
AnalyzeTrace ==
  /\ tpc = "analyze"
  /\ \E work \in {"ok", "fails"}, handler \in HandlerOutcomes :
       AfterGuarded(Guarded("analysis failed", work, handler), "setCompleted")
  /\ UNCHANGED <<subject, metadata, ipc, unhandled, polled>>
  /\ UNCHANGED <<scanVars, severityVars, invocationVars, terminateVars, reportVars, laterVars>>

\* await updateTraceStatus(traceDir, "completed")
SetCompleted ==
  /\ tpc = "setCompleted"
  /\ \E how \in UpdateOutcomes(metadata) :
       metadata' = updateTraceStatus(metadata, "completed", "none", how)
  /\ tpc' = "logCompleted"
  /\ UNCHANGED <<subject, ipc, failure, errors, unhandled, polled>>
  /\ UNCHANGED <<scanVars, severityVars, invocationVars, terminateVars, reportVars, laterVars>>

\* the logger.info that ends the try of collectTraceData
LogCompleted ==
  /\ tpc = "logCompleted"
  /\ \E logs \in BOOLEAN :
       IF logs
       THEN /\ tpc' = "done"
            /\ UNCHANGED <<failure, errors>>
       ELSE /\ Caught("log failed")
            /\ errors' = errors \cup {"log failed"}
  /\ UNCHANGED <<subject, metadata, ipc, unhandled, polled>>
  /\ UNCHANGED <<scanVars, severityVars, invocationVars, terminateVars, reportVars, laterVars>>

\* the catch of collectTraceData: logger.error, before updateTraceStatus
CatchError ==
  /\ tpc = "caught"
  /\ \E logs \in BOOLEAN :
       IF logs
       THEN /\ tpc' = "setFailed"
            /\ UNCHANGED errors
       ELSE /\ tpc' = "rejected"
            /\ errors' = errors \cup {"log failed"}
  /\ UNCHANGED <<subject, metadata, ipc, failure, unhandled, polled>>
  /\ UNCHANGED <<scanVars, severityVars, invocationVars, terminateVars, reportVars, laterVars>>

\* await updateTraceStatus(traceDir, "failed", errorMessage)
SetFailed ==
  /\ tpc = "setFailed"
  /\ \E how \in UpdateOutcomes(metadata) :
       metadata' = updateTraceStatus(metadata, "failed", failure, how)
  /\ tpc' = "done"
  /\ UNCHANGED <<subject, ipc, failure, errors, unhandled, polled>>
  /\ UNCHANGED <<scanVars, severityVars, invocationVars, terminateVars, reportVars, laterVars>>

\* the handler initiateTrace gave to catch(): logger.error, nothing after it
RejectionHandler ==
  /\ tpc = "rejected"
  /\ \E logs \in BOOLEAN : unhandled' = ~logs
  /\ tpc' = "done"
  /\ UNCHANGED <<subject, metadata, ipc, failure, errors, polled>>
  /\ UNCHANGED <<scanVars, severityVars, invocationVars, terminateVars, reportVars, laterVars>>

\* GET /api/trace/:traceId, asked by the holder of the id
Poll ==
  /\ ipc = "returned"
  /\ \E p \in Progress : polled' = [status |-> "in_progress", progress |-> p]
  /\ UNCHANGED <<subject, metadata, ipc, tpc, failure, errors, unhandled>>
  /\ UNCHANGED <<scanVars, severityVars, invocationVars, terminateVars, reportVars, laterVars>>

NextTrace ==
  \/ BeginTrace
  \/ WriteMetadata
  \/ InitiateReturns
  \/ StartCollection
  \/ SetCollecting
  \/ CollectCloud
  \/ CollectLocal
  \/ AnalyzeTrace
  \/ SetCompleted
  \/ LogCompleted
  \/ CatchError
  \/ SetFailed
  \/ RejectionHandler
  \/ Poll

SpecTrace == InitTrace /\ [][NextTrace]_vars

\* mkdir and writeFile settle and initiateTrace is synchronous code between
\* them; nothing makes a command of the background task end
FairSpecTrace ==
  SpecTrace /\ WF_vars(BeginTrace) /\ WF_vars(WriteMetadata) /\ WF_vars(InitiateReturns)

(***************************************************************************)
(* Claims on the forensic trace                                            *)
(***************************************************************************)
\* the changes of status the state machine of a trace allows
AllowedStatusChanges ==
  { <<"absent", "initiated">>, <<"initiated", "collecting">>,
    <<"collecting", "completed">>, <<"collecting", "failed">> }

Statuses == {"initiated", "collecting", "completed", "failed"}

\* C11: the status in metadata.json only changes from initiated to
\* collecting and from collecting to completed or to failed.
C11_StatusPath ==
  [][(/\ StatusOf(metadata) \in Statuses
      /\ StatusOf(metadata') \in Statuses
      /\ StatusOf(metadata') # StatusOf(metadata))
       => <<StatusOf(metadata), StatusOf(metadata')>> \in AllowedStatusChanges]_vars

\* C12: when the background task has ended and a step of collection or of
\* analysis raised an error, the status is failed and metadata.json holds
\* the message of an error that was raised.
C12_ErrorMeansFailed ==
  (tpc = "done" /\ errors \cap {"collection failed", "analysis failed"} # {}) =>
    /\ StatusOf(metadata) = "failed"
    /\ metadata.error \in errors

\* C13: a status of completed or failed is never changed again.
C13_TerminalStatus ==
  [][StatusOf(metadata) \in {"completed", "failed"} => metadata' = metadata]_vars

\* C14: initiateTrace returns the id once metadata.json holds the status
\* initiated and the background task is started, whatever the background
\* task does afterwards, and even if that task never ends.
C14_ReturnsWithoutWaiting ==
  /\ [][(ipc' = "spawned" /\ ipc # "spawned") =>
          (StatusOf(metadata') = "initiated" /\ tpc' = "begin")]_vars
  /\ [](ipc = "returned" => (metadata.state # "absent" /\ tpc # "idle"))
  /\ <>(ipc \in {"returned", "threw"})

\* the caller holds the id while the trace is collecting
C14_Witness ==
  /\ ipc = "returned"
  /\ StatusOf(metadata) = "collecting"
  /\ tpc = "collect"

\* C15: no rejection of the background task is left unhandled, and once the
\* task is started initiateTrace does not throw.
C15_NoEscape ==
  /\ unhandled = FALSE
  /\ tpc # "idle" => ipc # "threw"

\* C16: the answer of a poll carries the status that metadata.json holds,
\* which is one of the four statuses.
C16_PollReportsPersisted ==
  [][polled' # polled =>
       (polled'.status = StatusOf(metadata') /\ polled'.status \in Statuses)]_vars

(***************************************************************************)
(* Remediation: terminateMiner.  Its log calls are taken to return; the    *)
(* provider call or the command it issues either returns or throws.        *)
(***************************************************************************)
\* the longest stretch of s that neither starts nor ends with a white space
\* or a line terminator
Trim(s) ==
  LET kept == {i \in 1..Len(s) : s[i] \notin Space} IN
  IF kept = {} THEN <<>>
  ELSE SubSeq(s, CHOOSE i \in kept : \A j \in kept : i <= j,
                 CHOOSE i \in kept : \A j \in kept : i >= j)

AllIn(s, set) == \A i \in 1..Len(s) : s[i] \in set

\* DecimalDigits
DecimalDigits(s) == Len(s) > 0 /\ AllIn(s, Digit)

\* ExponentPart, or nothing
ExponentPart(s) ==
  \/ s = <<>>
  \/ /\ Len(s) >= 2
     /\ s[1] \in SetOf(<<"e", "E">>)
     /\ DecimalDigits(IF s[2] \in SetOf(<<"+", "-">>) THEN SubSeq(s, 3, Len(s)) ELSE Tail(s))

\* digits, digits "." digits, digits "." or "." digits
Mantissa(s) ==
  \E d \in 0..Len(s) :
    /\ AllIn(SubSeq(s, 1, d), Digit)
    /\ IF d = Len(s) THEN d > 0
       ELSE /\ s[d + 1] = Ord(".")
            /\ AllIn(SubSeq(s, d + 2, Len(s)), Digit)
            /\ Len(s) > 1

\* StrUnsignedDecimalLiteral
UnsignedDecimal(s) ==
  \/ s = Str(<<"I", "n", "f", "i", "n", "i", "t", "y">>)
  \/ \E m \in 1..Len(s) : Mantissa(SubSeq(s, 1, m)) /\ ExponentPart(SubSeq(s, m + 1, Len(s)))

\* StrDecimalLiteral: an optional sign, then StrUnsignedDecimalLiteral
StrDecimalLiteral(s) ==
  s # <<>> /\ UnsignedDecimal(IF s[1] \in SetOf(<<"+", "-">>) THEN Tail(s) ELSE s)

\* NonDecimalIntegerLiteral: 0x, 0o or 0b and digits of that base, no sign
NonDecimalIntegerLiteral(s) ==
  /\ Len(s) >= 3
  /\ s[1] = Ord("0")
  /\ \/ s[2] \in SetOf(<<"x", "X">>) /\ AllIn(SubSeq(s, 3, Len(s)), HexDigit)
     \/ s[2] \in SetOf(<<"o", "O">>) /\ AllIn(SubSeq(s, 3, Len(s)), Ord("0")..Ord("7"))
     \/ s[2] \in SetOf(<<"b", "B">>) /\ AllIn(SubSeq(s, 3, Len(s)), SetOf(<<"0", "1">>))

\* isNaN(Number(s)): Number gives NaN for a string that, once trimmed, is
\* neither empty nor a numeric literal
NumberIsNaN(s) ==
  With(Trim(s), LAMBDA t :
    ~(t = <<>> \/ StrDecimalLiteral(t) \/ NonDecimalIntegerLiteral(t)))

\* const isPid = !isNaN(Number(processId))
isPid(processId) == ~NumberIsNaN(processId)

\* the resource ids given with a local Process or Service
LocalIds ==
  { Str(<<"1", "2", "3", "4">>),
    Str(<<"0">>),
    Str(<<"-", "1">>),
    Str(<<"1", ".", "5">>),
    Str(<<" ">>),
    Str(<<"x", "m", "r", "i", "g">>),
    Str(<<"0", "x", "1", "F">>),
    Str(<<"1", "e", "3">>),
    Str(<<"1", "2", "a", "b">>),
    Str(<<"+", "7">>),
    Str(<<".", "5">>),
    Str(<<"5", ".">>),
    Str(<<"I", "n", "f", "i", "n", "i", "t", "y">>),
    Str(<<"0", "0", "7">>) }

\* the arguments terminateMiner is called with
TerminateTargets ==
  { [source |-> Str(<<"A", "W", "S", " ", "E", "C", "2", " ", "I", "n", "s", "t", "a", "n", "c", "e", " ", "U", "s", "e", "r", "D", "a", "t", "a", ":", " ", "i", "-", "1">>),
     itemType |-> Str(<<"E", "C", "2", " ", "U", "s", "e", "r", "D", "a", "t", "a">>),
     resourceId |-> Str(<<"i", "-", "1">>)],
    [source |-> Str(<<"G", "C", "P", " ", "C", "o", "m", "p", "u", "t", "e", " ", "E", "n", "g", "i", "n", "e", " ", "M", "e", "t", "a", "d", "a", "t", "a", ":", " ", "v", "m", "1">>),
     itemType |-> Str(<<"C", "o", "m", "p", "u", "t", "e", " ", "E", "n", "g", "i", "n", "e", " ", "M", "e", "t", "a", "d", "a", "t", "a">>),
     resourceId |-> Str(<<"p", "/", "z", "/", "v", "m", "1">>)],
    [source |-> Str(<<"A", "z", "u", "r", "e", " ", "V", "M", " ", "C", "u", "s", "t", "o", "m", " ", "D", "a", "t", "a", ":", " ", "v", "m", "1">>),
     itemType |-> Str(<<"V", "M", " ", "C", "u", "s", "t", "o", "m", " ", "D", "a", "t", "a">>),
     resourceId |-> Str(<<"/", "s", "/", "g", "/", "v", "m", "1">>)],
    [source |-> Str(<<"F", "i", "l", "e", ":", " ", "/", "e", "t", "c", "/", "c", "r", "o", "n", "t", "a", "b">>),
     itemType |-> Str(<<"F", "i", "l", "e">>),
     resourceId |-> Str(<<"/", "e", "t", "c", "/", "c", "r", "o", "n", "t", "a", "b">>)],
    [source |-> Str(<<"A", "W", "S", " ", "L", "a", "m", "b", "d", "a", " ", "E", "n", "v", "i", "r", "o", "n", "m", "e", "n", "t", " ", "V", "a", "r", "i", "a", "b", "l", "e", "s", ":", " ", "f">>),
     itemType |-> Str(<<"L", "a", "m", "b", "d", "a", " ", "E", "n", "v", "i", "r", "o", "n", "m", "e", "n", "t">>),
     resourceId |-> Str(<<"f">>)] }
  \cup { [source |-> Str(<<"P", "r", "o", "c", "e", "s", "s", ":", " ", "x", "m", "r", "i", "g">>), itemType |-> Str(<<"P", "r", "o", "c", "e", "s", "s">>), resourceId |-> id] :
           id \in LocalIds }
  \cup { [source |-> Str(<<"S", "y", "s", "t", "e", "m", "d", " ", "S", "e", "r", "v", "i", "c", "e", ":", " ", "c", "r", "o", "n">>), itemType |-> Str(<<"S", "e", "r", "v", "i", "c", "e">>),
          resourceId |-> id] : id \in LocalIds }

\* the source prefixes and item types of the Findings the collectors push
Emitted ==
  {
    [prefix |-> Str(<<"A", "W", "S", " ", "E", "C", "2", " ", "I", "n", "s", "t", "a", "n", "c", "e", " ", "U", "s", "e", "r", "D", "a", "t", "a">>),
     itemType |-> Str(<<"E", "C", "2", " ", "U", "s", "e", "r", "D", "a", "t", "a">>)],
    [prefix |-> Str(<<"A", "W", "S", " ", "E", "C", "2", " ", "I", "n", "s", "t", "a", "n", "c", "e", " ", "T", "a", "g", "s">>),
     itemType |-> Str(<<"E", "C", "2", " ", "T", "a", "g", "s">>)],
    [prefix |-> Str(<<"A", "W", "S", " ", "E", "C", "2", " ", "L", "a", "u", "n", "c", "h", " ", "T", "e", "m", "p", "l", "a", "t", "e">>),
     itemType |-> Str(<<"E", "C", "2", " ", "L", "a", "u", "n", "c", "h", " ", "T", "e", "m", "p", "l", "a", "t", "e">>)],
    [prefix |-> Str(<<"A", "W", "S", " ", "L", "a", "m", "b", "d", "a", " ", "E", "n", "v", "i", "r", "o", "n", "m", "e", "n", "t", " ", "V", "a", "r", "i", "a", "b", "l", "e", "s">>),
     itemType |-> Str(<<"L", "a", "m", "b", "d", "a", " ", "E", "n", "v", "i", "r", "o", "n", "m", "e", "n", "t">>)],
    [prefix |-> Str(<<"A", "W", "S", " ", "C", "l", "o", "u", "d", "F", "o", "r", "m", "a", "t", "i", "o", "n", " ", "S", "t", "a", "c", "k">>),
     itemType |-> Str(<<"C", "l", "o", "u", "d", "F", "o", "r", "m", "a", "t", "i", "o", "n", " ", "T", "e", "m", "p", "l", "a", "t", "e">>)],
    [prefix |-> Str(<<"A", "W", "S", " ", "E", "C", "S", " ", "T", "a", "s", "k", " ", "D", "e", "f", "i", "n", "i", "t", "i", "o", "n">>),
     itemType |-> Str(<<"E", "C", "S", " ", "T", "a", "s", "k", " ", "D", "e", "f", "i", "n", "i", "t", "i", "o", "n">>)],
    [prefix |-> Str(<<"A", "W", "S", " ", "S", "S", "M", " ", "D", "o", "c", "u", "m", "e", "n", "t">>),
     itemType |-> Str(<<"S", "S", "M", " ", "D", "o", "c", "u", "m", "e", "n", "t">>)],
    [prefix |-> Str(<<"G", "C", "P", " ", "C", "o", "m", "p", "u", "t", "e", " ", "E", "n", "g", "i", "n", "e", " ", "S", "t", "a", "r", "t", "u", "p", " ", "S", "c", "r", "i", "p", "t">>),
     itemType |-> Str(<<"C", "o", "m", "p", "u", "t", "e", " ", "E", "n", "g", "i", "n", "e", " ", "S", "t", "a", "r", "t", "u", "p", " ", "S", "c", "r", "i", "p", "t">>)],
    [prefix |-> Str(<<"G", "C", "P", " ", "C", "o", "m", "p", "u", "t", "e", " ", "E", "n", "g", "i", "n", "e", " ", "M", "e", "t", "a", "d", "a", "t", "a">>),
     itemType |-> Str(<<"C", "o", "m", "p", "u", "t", "e", " ", "E", "n", "g", "i", "n", "e", " ", "M", "e", "t", "a", "d", "a", "t", "a">>)],
    [prefix |-> Str(<<"G", "C", "P", " ", "I", "n", "s", "t", "a", "n", "c", "e", " ", "T", "e", "m", "p", "l", "a", "t", "e">>),
     itemType |-> Str(<<"I", "n", "s", "t", "a", "n", "c", "e", " ", "T", "e", "m", "p", "l", "a", "t", "e">>)],
    [prefix |-> Str(<<"G", "C", "P", " ", "C", "l", "o", "u", "d", " ", "F", "u", "n", "c", "t", "i", "o", "n", " ", "E", "n", "v", "i", "r", "o", "n", "m", "e", "n", "t", " ", "V", "a", "r", "i", "a", "b", "l", "e", "s">>),
     itemType |-> Str(<<"C", "l", "o", "u", "d", " ", "F", "u", "n", "c", "t", "i", "o", "n", " ", "E", "n", "v", "i", "r", "o", "n", "m", "e", "n", "t">>)],
    [prefix |-> Str(<<"A", "z", "u", "r", "e", " ", "V", "M", " ", "C", "u", "s", "t", "o", "m", " ", "S", "c", "r", "i", "p", "t", " ", "E", "x", "t", "e", "n", "s", "i", "o", "n">>),
     itemType |-> Str(<<"V", "M", " ", "C", "u", "s", "t", "o", "m", " ", "S", "c", "r", "i", "p", "t">>)],
    [prefix |-> Str(<<"A", "z", "u", "r", "e", " ", "V", "M", " ", "C", "u", "s", "t", "o", "m", " ", "D", "a", "t", "a">>),
     itemType |-> Str(<<"V", "M", " ", "C", "u", "s", "t", "o", "m", " ", "D", "a", "t", "a">>)],
    [prefix |-> Str(<<"A", "z", "u", "r", "e", " ", "V", "M", " ", "S", "S", "H", " ", "K", "e", "y", "s">>),
     itemType |-> Str(<<"V", "M", " ", "S", "S", "H", " ", "K", "e", "y", "s">>)],
    [prefix |-> Str(<<"A", "z", "u", "r", "e", " ", "V", "M", " ", "S", "c", "a", "l", "e", " ", "S", "e", "t", " ", "C", "u", "s", "t", "o", "m", " ", "S", "c", "r", "i", "p", "t", " ", "E", "x", "t", "e", "n", "s", "i", "o", "n">>),
     itemType |-> Str(<<"V", "M", "S", "S", " ", "C", "u", "s", "t", "o", "m", " ", "S", "c", "r", "i", "p", "t">>)],
    [prefix |-> Str(<<"A", "z", "u", "r", "e", " ", "V", "M", " ", "S", "c", "a", "l", "e", " ", "S", "e", "t", " ", "C", "u", "s", "t", "o", "m", " ", "D", "a", "t", "a">>),
     itemType |-> Str(<<"V", "M", "S", "S", " ", "C", "u", "s", "t", "o", "m", " ", "D", "a", "t", "a">>)],
    [prefix |-> Str(<<"A", "z", "u", "r", "e", " ", "C", "o", "n", "t", "a", "i", "n", "e", "r", " ", "C", "o", "m", "m", "a", "n", "d">>),
     itemType |-> Str(<<"C", "o", "n", "t", "a", "i", "n", "e", "r", " ", "C", "o", "m", "m", "a", "n", "d">>)],
    [prefix |-> Str(<<"A", "z", "u", "r", "e", " ", "C", "o", "n", "t", "a", "i", "n", "e", "r", " ", "E", "n", "v", "i", "r", "o", "n", "m", "e", "n", "t", " ", "V", "a", "r", "i", "a", "b", "l", "e", "s">>),
     itemType |-> Str(<<"C", "o", "n", "t", "a", "i", "n", "e", "r", " ", "E", "n", "v", "i", "r", "o", "n", "m", "e", "n", "t">>)],
    [prefix |-> Str(<<"A", "z", "u", "r", "e", " ", "R", "e", "s", "o", "u", "r", "c", "e", " ", "P", "r", "o", "p", "e", "r", "t", "i", "e", "s">>),
     itemType |-> Str(<<"R", "e", "s", "o", "u", "r", "c", "e", " ", "P", "r", "o", "p", "e", "r", "t", "i", "e", "s">>)],
    [prefix |-> Str(<<"U", "s", "e", "r", " ", "C", "r", "o", "n", "t", "a", "b">>),
     itemType |-> Str(<<"C", "r", "o", "n", "t", "a", "b">>)],
    [prefix |-> Str(<<"S", "y", "s", "t", "e", "m", "d", " ", "S", "e", "r", "v", "i", "c", "e">>),
     itemType |-> Str(<<"S", "e", "r", "v", "i", "c", "e">>)],
    [prefix |-> Str(<<"R", "e", "g", "i", "s", "t", "r", "y">>),
     itemType |-> Str(<<"R", "e", "g", "i", "s", "t", "r", "y">>)],
    [prefix |-> Str(<<"S", "c", "h", "e", "d", "u", "l", "e", "d", " ", "T", "a", "s", "k">>),
     itemType |-> Str(<<"S", "c", "h", "e", "d", "u", "l", "e", "d", " ", "T", "a", "s", "k">>)],
    [prefix |-> Str(<<"W", "i", "n", "d", "o", "w", "s", " ", "S", "e", "r", "v", "i", "c", "e">>),
     itemType |-> Str(<<"S", "e", "r", "v", "i", "c", "e">>)],
    [prefix |-> Str(<<"F", "i", "l", "e">>),
     itemType |-> Str(<<"F", "i", "l", "e">>)]
  }

\* the places where part occurs in s, counted from 0
Places(s, part) ==
  {i \in 0..(Len(s) - Len(part)) : SubSeq(s, i + 1, i + Len(part)) = part}

\* currentResult.source.split(": ")[1] || currentResult.source
UiResourceId(source) ==
  LET sep == Str(<<":", " ">>)
      first == Places(source, sep)
  IN IF first = {} THEN source
     ELSE LET rest == SubSeq(source, Smallest(first) + Len(sep) + 1, Len(source))
              more == Places(rest, sep)
              piece == IF more = {} THEN rest ELSE SubSeq(rest, 1, Smallest(more))
          IN IF piece = <<>> THEN source ELSE piece

\* what the terminate button of the results page sends for a Finding
FromFinding(prefix, itemType, name) ==
  LET source == prefix \o Str(<<":", " ">>) \o name IN
  [source |-> source, itemType |-> itemType, resourceId |-> UiResourceId(source)]

\* The requests for the Findings of every kind, each of a resource r1, and
\* one for a scale set whose resourceId is its Azure resource id.
FindingTargets ==
  {FromFinding(e.prefix, e.itemType, Str(<<"r", "1">>)) : e \in Emitted}
    \cup {[source |-> Str(<<"A", "z", "u", "r", "e", " ", "V", "M", " ", "S", "c", "a", "l", "e", " ", "S", "e", "t", " ", "C", "u", "s", "t", "o", "m", " ", "D", "a", "t", "a", ":", " ", "s", "s", "1">>),
           itemType |-> Str(<<"V", "M", "S", "S", " ", "C", "u", "s", "t", "o", "m", " ", "D", "a", "t", "a">>),
           resourceId |-> Str(<<"/", "s", "/", "g", "/", "s", "s", "1">>)]}

\* requests that lack a parameter: an empty string, or none
IncompleteRequests ==
  { [source |-> <<>>, itemType |-> Str(<<"P", "r", "o", "c", "e", "s", "s">>), resourceId |-> Str(<<"1", "2", "3", "4">>)],
    [source |-> Str(<<"P", "r", "o", "c", "e", "s", "s", ":", " ", "x", "m", "r", "i", "g">>), itemType |-> <<>>, resourceId |-> Str(<<"1", "2", "3", "4">>)],
    [source |-> Str(<<"P", "r", "o", "c", "e", "s", "s", ":", " ", "x", "m", "r", "i", "g">>), itemType |-> Str(<<"P", "r", "o", "c", "e", "s", "s">>), resourceId |-> <<>>] }

\* if (!source || !itemType || !resourceId)
Missing(req) == req.source = <<>> \/ req.itemType = <<>> \/ req.resourceId = <<>>

\* the callers: a call of terminateMiner, or the handler of POST /api/terminate
Callers == {"call", "POST /api/terminate"}

Platforms == {"linux", "win32"}

\* the branch terminateMiner takes
TerminateBranch_LocalOtherwise(source, itemType) ==
  IF Includes(source, Str(<<"A", "W", "S", " ", "E", "C", "2", " ", "I", "n", "s", "t", "a", "n", "c", "e">>)) THEN "aws"
  ELSE IF Includes(source, Str(<<"G", "C", "P", " ", "C", "o", "m", "p", "u", "t", "e", " ", "E", "n", "g", "i", "n", "e">>)) THEN "gcp"
  ELSE IF Includes(source, Str(<<"A", "z", "u", "r", "e", " ", "V", "M">>)) THEN "azure"
  ELSE "local"

TerminateBranch(source, itemType) ==
  IF Includes(source, Str(<<"A", "W", "S", " ", "E", "C", "2", " ", "I", "n", "s", "t", "a", "n", "c", "e">>)) THEN "aws"
  ELSE IF Includes(source, Str(<<"G", "C", "P", " ", "C", "o", "m", "p", "u", "t", "e", " ", "E", "n", "g", "i", "n", "e">>)) THEN "gcp"
  ELSE IF Includes(source, Str(<<"A", "z", "u", "r", "e", " ", "V", "M">>)) THEN "azure"
  ELSE IF itemType = Str(<<"P", "r", "o", "c", "e", "s", "s">>) \/ itemType = Str(<<"S", "e", "r", "v", "i", "c", "e">>) THEN "local"
  ELSE "unsupported"

\* the result for a resource type that is not supported
Unsupported(itemType) ==
  [kind |-> "result", success |-> FALSE,
   message |-> <<"Unsupported resource type: ", itemType>>]

\* the result of a branch that succeeded
Succeeded(message, what) ==
  [kind |-> "result", success |-> TRUE, message |-> <<message, what>>]

\* An error of a branch: its catch logs it and throws it again, and the
\* catch of terminateMiner makes a result of it.
Failed_Rethrown(error) == [kind |-> "threw", message |-> error]

Failed(error) ==
  [kind |-> "result", success |-> FALSE,
   message |-> <<"Error terminating miner: ", error>>]

\* a provider call or command, with the message of its error, or "none"
Call(kind, command, arg, error) ==
  [kind |-> kind, command |-> command, arg |-> arg, error |-> error]

InitTerminate ==
  /\ target \in [ request : TerminateTargets \cup FindingTargets \cup IncompleteRequests,
                   platform : Platforms, via : Callers ]
  /\ kpc = IF target.via = "call" THEN "start" ELSE "idle"
  /\ hpc = IF target.via = "call" THEN "idle" ELSE "received"
  /\ response = [status |-> "none"]
  /\ events = <<>>
  /\ calls = <<>>
  /\ termination = [kind |-> "none"]
  \* nothing else takes place
  /\ content = <<>>
  /\ base64Decode = FALSE
  /\ stack = <<>>
  /\ result = <<>>
  /\ pc = "idle"
  /\ score = 0
  /\ severity = <<>>
  /\ request = [kind |-> "none"]
  /\ env = DefaultEnvironment
  /\ at = "idle"
  /\ running = "none"
  /\ next = 0
  /\ collected = <<>>
  /\ results = <<>>
  /\ outcome = [kind |-> "none", results |-> <<>>]
  /\ log = {}
  /\ ran = {}
  /\ visited = {}
  /\ returned = <<>>
  /\ raised = {}
  /\ subject = <<>>
  /\ metadata = [state |-> "absent"]
  /\ ipc = "idle"
  /\ tpc = "idle"
  /\ failure = "none"
  /\ errors = {}
  /\ unhandled = FALSE
  /\ polled = [status |-> "none"]
  /\ findings = <<>>
  /\ format = "none"
  /\ rpc = "idle"
  /\ report = [written |-> FALSE]
  /\ file = [path |-> <<>>]
  /\ fpc = "idle"
  /\ fileCalls = <<>>
  /\ pushed = <<>>

\* terminateMiner: the tests on source and itemType
Dispatch ==
  /\ kpc = "start"
  /\ LET branch == TerminateBranch(target.request.source, target.request.itemType) IN
     IF branch = "unsupported"
     THEN /\ termination' = Unsupported(target.request.itemType)
          /\ kpc' = "done"
     ELSE /\ termination' = termination
          /\ kpc' = branch
  /\ UNCHANGED <<target, calls>>
  /\ UNCHANGED <<scanVars, severityVars, invocationVars, traceVars, reportVars, laterVars>>

\* a branch issues one call and terminateMiner returns
Issue(kind, command, error, message) ==
  /\ calls' = Append(calls, Call(kind, command, target.request.resourceId, error))
  /\ termination' = IF error = "none"
                    THEN Succeeded(message, target.request.resourceId)
                    ELSE Failed(error)
  /\ kpc' = "done"

\* terminateAWSInstance: ec2Client.send(TerminateInstancesCommand)
TerminateAWS ==
  /\ kpc = "aws"
  /\ \E error \in {"none", "TerminateInstances failed"} :
       Issue("provider", "TerminateInstances", error,
             "AWS EC2 instance termination initiated for ")
  /\ UNCHANGED target
  /\ UNCHANGED <<scanVars, severityVars, invocationVars, traceVars, reportVars, laterVars>>

\* terminateGCPInstance: vm.delete(), then the wait for the operation
TerminateGCP ==
  /\ kpc = "gcp"
  /\ \E error \in {"none", "delete failed", "operation failed"} :
       Issue("provider", "vm.delete", error, "GCP Compute Engine instance deleted: ")
  /\ UNCHANGED target
  /\ UNCHANGED <<scanVars, severityVars, invocationVars, traceVars, reportVars, laterVars>>

\* terminateAzureVM: virtualMachines.beginDeleteAndWait
TerminateAzure ==
  /\ kpc = "azure"
  /\ \E error \in {"none", "beginDeleteAndWait failed"} :
       Issue("provider", "beginDeleteAndWait", error, "Azure VM deleted: ")
  /\ UNCHANGED target
  /\ UNCHANGED <<scanVars, severityVars, invocationVars, traceVars, reportVars, laterVars>>

\* terminateLocalProcess, isPid: kill -9 or taskkill /F /PID
KillProcess ==
  /\ kpc = "local"
  /\ isPid(target.request.resourceId)
  /\ \E error \in {"none", "Command failed"} :
       Issue("kill", IF target.platform = "win32" THEN "taskkill /F /PID" ELSE "kill -9",
             error, "Process terminated: PID ")
  /\ UNCHANGED target
  /\ UNCHANGED <<scanVars, severityVars, invocationVars, traceVars, reportVars, laterVars>>

\* terminateLocalProcess, not isPid: stop the service, then disable it
StopService ==
  /\ kpc = "local"
  /\ ~isPid(target.request.resourceId)
  /\ \E error \in {"none", "Command failed"} :
       Issue("service",
             IF target.platform = "win32" THEN "sc stop && sc delete"
             ELSE "systemctl stop && systemctl disable",
             error, "Service stopped and disabled: ")
  /\ UNCHANGED target
  /\ UNCHANGED <<scanVars, severityVars, invocationVars, traceVars, reportVars, laterVars>>

\* POST /api/terminate without a parameter: 400, terminateMiner is not called
RejectTerminate ==
  /\ hpc = "received"
  /\ Missing(target.request)
  /\ response' = [status |-> "400", success |-> FALSE, error |-> "Missing required parameters"]
  /\ hpc' = "responded"
  /\ UNCHANGED <<events, terminateVars, fileVars>>
  /\ UNCHANGED <<scanVars, severityVars, invocationVars, traceVars, reportVars>>

\* const result = await terminateMiner(source, itemType, resourceId, logger)
CallTerminate ==
  /\ hpc = "received"
  /\ ~Missing(target.request)
  /\ hpc' = "calling"
  /\ kpc' = "start"
  /\ UNCHANGED <<target, calls, termination, response, events, fileVars>>
  /\ UNCHANGED <<scanVars, severityVars, invocationVars, traceVars, reportVars>>

\* the top-level success flag of res.json({ success: true, result })
Answer(returned_result) == TRUE

\* io.emit("miner:terminated", ...) and res.json, once terminateMiner returned
RespondTerminate ==
  /\ hpc = "calling"
  /\ kpc = "done"
  /\ events' = Append(events, [name |-> "miner:terminated", request |-> target.request,
                               result |-> termination])
  /\ response' = [status |-> "200", success |-> Answer(termination), result |-> termination]
  /\ hpc' = "responded"
  /\ UNCHANGED <<terminateVars, fileVars>>
  /\ UNCHANGED <<scanVars, severityVars, invocationVars, traceVars, reportVars>>

NextTerminate ==
  \/ RejectTerminate
  \/ CallTerminate
  \/ RespondTerminate
  \/ Dispatch
  \/ TerminateAWS
  \/ TerminateGCP
  \/ TerminateAzure
  \/ KillProcess
  \/ StopService

SpecTerminate == InitTerminate /\ [][NextTerminate]_vars

(***************************************************************************)
(* Claims on remediation                                                   *)
(***************************************************************************)
\* a positive integer in decimal digits
ParsesAsPositiveInteger(s) == DecimalDigits(s) /\ ~AllIn(s, {Ord("0")})

\* C17: a termination of a local Process or Service kills by PID exactly
\* when resourceId parses as a positive integer, and stops and disables a
\* service for every other resourceId.
C17_PidBranch ==
  (kpc = "done" /\ calls # <<>> /\ calls[1].kind \in {"kill", "service"}) =>
    (calls[1].kind = "kill") = ParsesAsPositiveInteger(target.request.resourceId)

\* the combinations of source and item type that terminateMiner recognizes
Recognized(source, itemType) ==
  \/ \E d \in {Str(<<"A", "W", "S", " ", "E", "C", "2", " ", "I", "n", "s", "t", "a", "n", "c", "e">>),
              Str(<<"G", "C", "P", " ", "C", "o", "m", "p", "u", "t", "e", " ", "E", "n", "g", "i", "n", "e">>),
              Str(<<"A", "z", "u", "r", "e", " ", "V", "M">>)} : Includes(source, d)
  \/ itemType \in {Str(<<"P", "r", "o", "c", "e", "s", "s">>), Str(<<"S", "e", "r", "v", "i", "c", "e">>)}

MaxFindings == 3

\* the severities and scores of the Findings given to generateReport
FindingKinds ==
  { [severity |-> "HIGH", score |-> 20], [severity |-> "HIGH", score |-> 15],
    [severity |-> "MEDIUM", score |-> 8], [severity |-> "LOW", score |-> 3],
    [severity |-> "CLEAN", score |-> 0] }

\* the arrays given to generateReport
FindingLists ==
  UNION { { [i \in 1..n |-> [id |-> i, severity |-> kinds[i].severity,
                             score |-> kinds[i].score]] :
              kinds \in [1..n -> FindingKinds] } : n \in 0..MaxFindings }

Formats == {"text", "json", "csv"}

\* results.filter((r) => true)
filter_All(array, s) == array

\* results.filter((r) => r.severity === s)
filter(array, s) ==
  LET upTo[i \in 0..Len(array)] ==
        IF i = 0 THEN <<>>
        ELSE IF array[i].severity = s THEN Append(upTo[i - 1], array[i])
        ELSE upTo[i - 1]
  IN upTo[Len(array)]

\* the Findings JSON.stringify(results, null, 2) lists
generateJSON(array) == array

\* the Findings of the rows of generateCSV
generateCSV(array) == array

\* the sections of generateTextReport, each with its count and its Findings
generateTextReport(array) ==
  [s \in {"HIGH", "MEDIUM", "LOW"} |->
     [count |-> Len(filter(array, s)), listed |-> filter(array, s)]]

\* the Findings a text report lists, in order
TextListing(sections) ==
  sections["HIGH"].listed \o sections["MEDIUM"].listed \o sections["LOW"].listed

\* the counts generateSummaryReport prints
generateSummaryReport(array) ==
  [s \in {"HIGH", "MEDIUM", "LOW", "CLEAN"} |-> Len(filter(array, s))]

InitReport ==
  /\ findings \in FindingLists
  /\ format \in Formats
  /\ rpc = "start"
  /\ report = [written |-> FALSE]
  /\ hpc = "idle"
  /\ response = [status |-> "none"]
  /\ events = <<>>
  /\ file = [path |-> <<>>]
  /\ fpc = "idle"
  /\ fileCalls = <<>>
  /\ pushed = <<>>
  \* nothing else takes place
  /\ content = <<>>
  /\ base64Decode = FALSE
  /\ stack = <<>>
  /\ result = <<>>
  /\ pc = "idle"
  /\ score = 0
  /\ severity = <<>>
  /\ request = [kind |-> "none"]
  /\ env = DefaultEnvironment
  /\ at = "idle"
  /\ running = "none"
  /\ next = 0
  /\ collected = <<>>
  /\ results = <<>>
  /\ outcome = [kind |-> "none", results |-> <<>>]
  /\ log = {}
  /\ ran = {}
  /\ visited = {}
  /\ returned = <<>>
  /\ raised = {}
  /\ subject = <<>>
  /\ metadata = [state |-> "absent"]
  /\ ipc = "idle"
  /\ tpc = "idle"
  /\ failure = "none"
  /\ errors = {}
  /\ unhandled = FALSE
  /\ polled = [status |-> "none"]
  /\ target = [platform |-> "none"]
  /\ kpc = "idle"
  /\ calls = <<>>
  /\ termination = [kind |-> "none"]

\* results.sort(...)
SortResults ==
  /\ rpc = "start"
  /\ findings' = sort(findings)
  /\ rpc' = "sorted"
  /\ UNCHANGED <<format, report>>
  /\ UNCHANGED <<scanVars, severityVars, invocationVars, traceVars, terminateVars, laterVars>>

\* reportContent = JSON.stringify(results, null, 2)
RenderJSON ==
  /\ rpc = "sorted"
  /\ format = "json"
  /\ report' = [written |-> FALSE, format |-> "json", listing |-> generateJSON(findings)]
  /\ rpc' = "rendered"
  /\ UNCHANGED <<findings, format>>
  /\ UNCHANGED <<scanVars, severityVars, invocationVars, traceVars, terminateVars, laterVars>>

\* reportContent = generateCSV(results)
RenderCSV ==
  /\ rpc = "sorted"
  /\ format = "csv"
  /\ report' = [written |-> FALSE, format |-> "csv", listing |-> generateCSV(findings)]
  /\ rpc' = "rendered"
  /\ UNCHANGED <<findings, format>>
  /\ UNCHANGED <<scanVars, severityVars, invocationVars, traceVars, terminateVars, laterVars>>

\* reportContent = generateTextReport(results), for every other format
RenderText ==
  /\ rpc = "sorted"
  /\ format \notin {"json", "csv"}
  /\ report' = [written |-> FALSE, format |-> "text",
                total |-> Len(findings),
                sections |-> generateTextReport(findings),
                listing |-> TextListing(generateTextReport(findings))]
  /\ rpc' = "rendered"
  /\ UNCHANGED <<findings, format>>
  /\ UNCHANGED <<scanVars, severityVars, invocationVars, traceVars, terminateVars, laterVars>>

\* await fs.writeFile(output, reportContent), which may throw
WriteReport ==
  /\ rpc = "rendered"
  /\ \E written \in BOOLEAN :
       /\ report' = [report EXCEPT !.written = written]
       /\ rpc' = IF written THEN "reported" ELSE "threw"
  /\ UNCHANGED <<findings, format>>
  /\ UNCHANGED <<scanVars, severityVars, invocationVars, traceVars, terminateVars, laterVars>>

\* generateSummaryReport(results) and the write of the summary
WriteSummary ==
  /\ rpc = "reported"
  /\ \E written \in BOOLEAN :
       /\ report' = IF written
                    THEN [summary |-> generateSummaryReport(findings)] @@ report
                    ELSE report
       /\ rpc' = IF written THEN "done" ELSE "threw"
  /\ UNCHANGED <<findings, format>>
  /\ UNCHANGED <<scanVars, severityVars, invocationVars, traceVars, terminateVars, laterVars>>

NextReport ==
  \/ SortResults
  \/ RenderJSON
  \/ RenderCSV
  \/ RenderText
  \/ WriteReport
  \/ WriteSummary

SpecReport == InitReport /\ [][NextReport]_vars

(***************************************************************************)
(* Claims on the report generator                                          *)
(***************************************************************************)
\* a comes before b: higher severity, then higher score, then earlier in
\* the array given to generateReport
Before(a, b) ==
  \/ severityOrder[a.severity] > severityOrder[b.severity]
  \/ /\ a.severity = b.severity
     /\ \/ a.score > b.score
        \/ a.score = b.score /\ a.id < b.id

\* list holds the Findings of array, each once, in the order of Before
ListsInOrder(list, array) ==
  /\ Len(list) = Len(array)
  /\ {list[i] : i \in 1..Len(list)} = {array[i] : i \in 1..Len(array)}
  /\ \A i, j \in 1..Len(list) : i < j => Before(list[i], list[j])

\* C20: the report that generateReport writes, in each of the three formats,
\* lists every Finding of the array it was given once, by severity
\* descending, then score descending, then place in that array.
C20_ReportOrder ==
  (rpc \in {"rendered", "reported", "done"}) =>
    /\ {findings[i].id : i \in 1..Len(findings)} = 1..Len(findings)
    /\ ListsInOrder(report.listing, findings)

\* the Findings of array that have severity s
WithSeverity(array, s) == {array[i] : i \in {j \in 1..Len(array) : array[j].severity = s}}

\* C21: in a text report the count in the header of each of the sections
\* HIGH, MEDIUM and LOW is the number of Findings of that severity in the
\* array given to generateReport, and the section lists those Findings, each
\* once, and no other.
C21_SectionCounts ==
  (rpc \in {"rendered", "reported", "done"} /\ report.format = "text") =>
    /\ {findings[i].id : i \in 1..Len(findings)} = 1..Len(findings)
    /\ \A s \in {"HIGH", "MEDIUM", "LOW"} :
         /\ report.sections[s].count = Cardinality(WithSeverity(findings, s))
         /\ Len(report.sections[s].listed) = report.sections[s].count
         /\ {report.sections[s].listed[i] : i \in 1..Len(report.sections[s].listed)}
              = WithSeverity(findings, s)

\* a text report of two HIGH Findings and one that is CLEAN
C21_Witness ==
  /\ rpc = "done"
  /\ report.format = "text"
  /\ report.sections["HIGH"].count = 2
  /\ Cardinality(WithSeverity(findings, "CLEAN")) = 1

(***************************************************************************)
(* The Findings of a scan invocation                                       *)
(***************************************************************************)
Elements(list) == {list[i] : i \in 1..Len(list)}

\* every Finding a collector holds or has returned, and every Finding the
\* invocation holds or has given
AllFindings ==
  Elements(collected) \cup Elements(results) \cup Elements(outcome.results)
    \cup UNION {Elements(returned[i].results) : i \in DOMAIN returned}

\* C22: a collector emits a Finding for an artifact only when the scan of the
\* artifact returned a non-empty match list: every Finding a collector holds
\* or returns carries the matches of its artifact's text, they are not empty,
\* its score is above 0 and its severity is not CLEAN.
C22_NonEmptyMatches ==
  \A f \in AllFindings :
    /\ f.matches = scanContent(f.contentPreview, ScanOptions.base64Decode)
    /\ Len(f.matches) > 0
    /\ f.score > 0
    /\ f.severity # "CLEAN"

\* a sub-scan went over a harmless resource and a miner, and the invocation
\* gave the Findings it collected
C22_Witness ==
  /\ outcome.kind \in {"report", "json"}
  /\ \E k \in SubScanKeys : env.shape[k] = "paged" /\ <<k[1], k[2], "r1">> \in visited
  /\ outcome.results # <<>>

\* the sum of the weights of a match list
RECURSIVE WeightOf(_)
WeightOf(matches) ==
  IF matches = <<>> THEN 0 ELSE Head(matches).weight + WeightOf(Tail(matches))

\* the number of places of list that hold x
Times(list, x) == Cardinality({i \in 1..Len(list) : list[i] = x})

\* the array generateReport has sorted, once main has called it
Reported == IF outcome.kind = "report" THEN outcome.reported ELSE <<>>

\* C26: every Finding a collector holds or returns has score = the sum of the
\* weights of its matches and severity = getSeverity(score); the array
\* generateReport has sorted holds the Findings of the invocation, each as
\* many times as before and with every field as it was, so the score and the
\* severity of a reported Finding are still those values.
C26_ScoreAndSeverityKept ==
  /\ \A f \in AllFindings \cup Elements(Reported) :
       /\ f.score = WeightOf(f.matches)
       /\ f.severity = getSeverity(f.score)
  /\ outcome.kind = "report" =>
       /\ Len(outcome.reported) = Len(outcome.results)
       /\ \A f \in Elements(outcome.results) \cup Elements(outcome.reported) :
            Times(outcome.reported, f) = Times(outcome.results, f)

\* generateReport has moved a HIGH Finding of the GCP collector in front of
\* the MEDIUM Finding of the local scan
C26_Witness ==
  /\ outcome.kind = "report"
  /\ outcome.reported # outcome.results
  /\ Len(outcome.reported) > 1
  /\ outcome.reported[1].severity = "HIGH"
  /\ outcome.results[1].severity = "MEDIUM"

(***************************************************************************)
(* Claims on the words scanContent decodes                                 *)
(***************************************************************************)
\* printable ASCII and the ordinary white space: tab, line feed, carriage
\* return and the space
PrintableBytes == (32..126) \cup {9, 10, 13}

\* the bytes a token decodes to are not all printable
NotText(word) ==
  \E i \in 1..Len(Base64Bytes(word)) : Base64Bytes(word)[i] \notin PrintableBytes

SyntheticOf(matches) ==
  {matches[i].match : i \in {j \in 1..Len(matches) :
                               matches[j].pattern = "base64_encoded_content"}}

\* C24: tryDecodeBase64 returns null for every token that decodes to a byte
\* outside printable ASCII and ordinary white space, and the matches of a
\* scan hold no synthetic match of such a token.
C24_RejectsNonText ==
  (pc = "done" /\ base64Decode) =>
    \A w \in Elements(Split(content)) :
      (ShouldDecode(w) /\ NotText(w)) =>
        /\ tryDecodeBase64(w) = Null
        /\ Truncated(w) \notin SyntheticOf(result)

\* the four conditions on a token that is decoded
Eligible(word) ==
  /\ Len(word) >= 20
  /\ Len(word) % 4 = 0
  /\ \A i \in 1..Len(word) :
       word[i] \in Upper \cup Lower \cup Digit \cup {Ord("+"), Ord("/"), Ord("=")}
  /\ Cardinality({word[i] : i \in 1..Len(word)}) >= 6

\* C25: with base64 decoding enabled a token is decoded and its text
\* rescanned only if it has at least 20 characters, a multiple of 4, all of the
\* base64 alphabet, and at least 6 distinct ones; every synthetic match of a
\* finished scan is the one of such a token, and a content with no such token
\* gets the matches of the catalog on the content alone.
C25_DecodesEligibleOnly ==
  /\ [][(Len(stack) >= 1 /\ Len(stack') = Len(stack) + 1) =>
          (Top.base64Decode /\ Eligible(Top.words[Top.w]))]_vars
  /\ [](pc = "done" =>
          /\ \A t \in SyntheticOf(result) :
               \E w \in Elements(Split(content)) : Eligible(w) /\ t = Truncated(w)
          /\ (\A w \in Elements(Split(content)) : ~Eligible(w)) =>
               result = ScanRules(content))

\* the text of a token was rescanned and gave matches, in a content that has
\* another token, which fails the conditions
C25_Witness ==
  /\ pc = "done"
  /\ base64Decode
  /\ SyntheticOf(result) # {}
  /\ \E w \in Elements(Split(content)) : w # <<>> /\ ~Eligible(w)

(***************************************************************************)
(* Claims on the end of a trace and on the start of its background task    *)
(***************************************************************************)
\* C27: once the background task of a trace whose id was returned has ended,
\* metadata.json holds the status completed or failed; it is not left at
\* initiated or collecting, even when a status write failed.
C27_EndsTerminal ==
  (ipc = "returned" /\ tpc = "done") => StatusOf(metadata) \in {"completed", "failed"}

\* C28: when mkdir or the write of the initial metadata.json fails,
\* initiateTrace throws, returns no id and the background task is never
\* started; the task is started only by the step that has written
\* metadata.json with the status initiated, and an id is returned only after
\* that step.
C28_StartsAfterInitialWrite ==
  /\ [](ipc = "threw" => (tpc = "idle" /\ StatusOf(metadata) \in {"absent", "torn"}))
  /\ [][(tpc = "idle" /\ tpc' # "idle") =>
          (metadata' = InitialMetadata /\ ipc = "made" /\ ipc' = "spawned")]_vars
  /\ [][(ipc # "returned" /\ ipc' = "returned") =>
          (ipc = "spawned" /\ tpc # "idle" /\ metadata.state # "absent")]_vars
  /\ [][ipc = "threw" => ipc' = "threw"]_vars

\* the write of the initial metadata.json failed and left an empty file:
\* initiateTrace threw and no background task runs
C28_Witness ==
  /\ ipc = "threw"
  /\ metadata.state = "torn"
  /\ tpc = "idle"

(***************************************************************************)
(* Claims on the termination of what a Finding names, and on the handler   *)
(* of POST /api/terminate                                                  *)
(***************************************************************************)
\* the item types of the Findings whose subject is a cloud compute instance
InstanceItemTypes ==
  { Str(<<"E", "C", "2", " ", "U", "s", "e", "r", "D", "a", "t", "a">>),
    Str(<<"E", "C", "2", " ", "T", "a", "g", "s">>),
    Str(<<"C", "o", "m", "p", "u", "t", "e", " ", "E", "n", "g", "i", "n", "e", " ", "S", "t", "a", "r", "t", "u", "p", " ", "S", "c", "r", "i", "p", "t">>),
    Str(<<"C", "o", "m", "p", "u", "t", "e", " ", "E", "n", "g", "i", "n", "e", " ", "M", "e", "t", "a", "d", "a", "t", "a">>),
    Str(<<"V", "M", " ", "C", "u", "s", "t", "o", "m", " ", "D", "a", "t", "a">>),
    Str(<<"V", "M", " ", "C", "u", "s", "t", "o", "m", " ", "S", "c", "r", "i", "p", "t">>),
    Str(<<"V", "M", " ", "S", "S", "H", " ", "K", "e", "y", "s">>) }

\* the item type of the Findings on a local service
ServiceItemType == Str(<<"S", "e", "r", "v", "i", "c", "e">>)

\* C29: for the Finding of every kind a collector pushes, terminateMiner
\* issues a provider call only when the subject of the Finding is a cloud
\* compute instance; for a Finding on another artifact, which is no local
\* service either, it returns the result "Unsupported resource type".
C29_OnlyInstancesDeleted ==
  target.request \in FindingTargets =>
    /\ (\E i \in 1..Len(calls) : calls[i].kind = "provider") =>
         target.request.itemType \in InstanceItemTypes
    /\ (kpc = "done" /\ target.request.itemType \notin InstanceItemTypes \cup {ServiceItemType}) =>
         termination = [kind |-> "result", success |-> FALSE,
                        message |-> <<"Unsupported resource type: ", target.request.itemType>>]

\* C30: the response of POST /api/terminate has the top-level success flag
\* false, and no miner:terminated event is broadcast, whenever terminateMiner
\* returned success false; a request that lacks a parameter is answered 400
\* and terminateMiner is not called.
C30_SuccessOnlyWhenTerminated ==
  hpc = "responded" =>
    /\ (termination.kind = "result" /\ ~termination.success) =>
         (response.success = FALSE /\ events = <<>>)
    /\ Missing(target.request) =>
         (response.status = "400" /\ termination.kind = "none" /\ calls = <<>>)

(***************************************************************************)
(* The local collector on one file: scanFile.  A step of the model is the  *)
(* code up to the next await.  logger.debug is taken to return.            *)
(***************************************************************************)
\* String.prototype.toLowerCase, on the letters A to Z
toLowerCase(s) ==
  [i \in 1..Len(s) |-> IF s[i] \in Upper THEN s[i] + (Ord("a") - Ord("A")) ELSE s[i]]

\* the places of the character c in s
PlacesOf(s, c) == {i \in 1..Len(s) : s[i] = Ord(c)}

\* path.basename of the path of a file
basename(p) ==
  IF PlacesOf(p, "/") = {} THEN p ELSE SubSeq(p, Largest(PlacesOf(p, "/")) + 1, Len(p))

\* path.extname: from the last "." of the base name on; "" when it has none,
\* when its only "." is its first character, and for ".."
extname(p) ==
  LET base == basename(p)
      dots == PlacesOf(base, ".")
  IN IF dots = {} \/ Largest(dots) = 1 \/ base = Str(<<".", ".">>) THEN <<>>
     ELSE SubSeq(base, Largest(dots), Len(base))

textFileExtensions ==
  << Str(<<".", "s", "h">>),
     Str(<<".", "b", "a", "s", "h">>),
     Str(<<".", "p", "y">>),
     Str(<<".", "p", "l">>),
     Str(<<".", "r", "b">>),
     Str(<<".", "j", "s">>),
     Str(<<".", "p", "h", "p">>),
     Str(<<".", "b", "a", "t">>),
     Str(<<".", "c", "m", "d">>),
     Str(<<".", "p", "s", "1">>),
     Str(<<".", "v", "b", "s">>),
     Str(<<".", "c", "o", "n", "f">>),
     Str(<<".", "c", "f", "g">>),
     Str(<<".", "i", "n", "i">>),
     Str(<<".", "s", "e", "r", "v", "i", "c", "e">>),
     Str(<<".", "t", "i", "m", "e", "r">>),
     Str(<<".", "s", "o", "c", "k", "e", "t">>),
     Str(<<".", "t", "x", "t">>) >>

\* textFileExtensions.includes(ext)
KnownText(ext) == \E i \in 1..Len(textFileExtensions) : textFileExtensions[i] = ext

\* 10 * 1024 * 1024
FileLimit == 10 * 1024 * 1024

\* the size test with the limit itself too large
TooLarge_AtLimit(size) == size >= FileLimit

\* stats.size > 10 * 1024 * 1024
TooLarge(size) == size > FileLimit

FilePaths ==
  { Str(<<"/", "o", "p", "t", "/", "r", "u", "n", ".", "s", "h">>),
    Str(<<"/", "o", "p", "t", "/", "R", "U", "N", ".", "S", "H">>),
    Str(<<"/", "o", "p", "t", "/", "m", "i", "n", "e", "r">>),
    Str(<<"/", "o", "p", "t", "/", ".", "b", "a", "s", "h", "r", "c">>),
    Str(<<"/", "o", "p", "t", "/", "a", ".", "b", "i", "n">>),
    Str(<<"/", "o", "p", "t", "/", "n", "o", "t", "e", "s", ".", "t", "x", "t", ".", "b", "a", "k">>),
    Str(<<"/", "o", "p", "t", ".", "s", "h", "/", "d", "a", "t", "a">>) }

\* the sizes stat reports
FileSizes == {0, FileLimit - 1, FileLimit, FileLimit + 1, 64 * 1024 * 1024}

\* The files given to scanFile: path, size, the text the catalog is run on
\* once the file is read, and which call of the file system throws, if any.
Files ==
  [ path : FilePaths, size : FileSizes,
    text : {Miner("f").text, Harmless("f").text},
    io : {"ok", "stat throws", "readFile throws"} ]

InitFile ==
  /\ file \in Files
  /\ fpc = "start"
  /\ fileCalls = <<>>
  /\ pushed = <<>>
  \* nothing else takes place
  /\ content = <<>>
  /\ base64Decode = FALSE
  /\ stack = <<>>
  /\ result = <<>>
  /\ pc = "idle"
  /\ score = 0
  /\ severity = <<>>
  /\ request = [kind |-> "none"]
  /\ env = DefaultEnvironment
  /\ at = "idle"
  /\ running = "none"
  /\ next = 0
  /\ collected = <<>>
  /\ results = <<>>
  /\ outcome = [kind |-> "none", results |-> <<>>]
  /\ log = {}
  /\ ran = {}
  /\ visited = {}
  /\ returned = <<>>
  /\ raised = {}
  /\ subject = <<>>
  /\ metadata = [state |-> "absent"]
  /\ ipc = "idle"
  /\ tpc = "idle"
  /\ failure = "none"
  /\ errors = {}
  /\ unhandled = FALSE
  /\ polled = [status |-> "none"]
  /\ target = [platform |-> "none"]
  /\ kpc = "idle"
  /\ calls = <<>>
  /\ termination = [kind |-> "none"]
  /\ findings = <<>>
  /\ format = "none"
  /\ rpc = "idle"
  /\ report = [written |-> FALSE]
  /\ hpc = "idle"
  /\ response = [status |-> "none"]
  /\ events = <<>>

\* the test of the extension
CheckExtension ==
  /\ fpc = "start"
  /\ fpc' = IF KnownText(toLowerCase(extname(file.path))) THEN "read" ELSE "stat"
  /\ UNCHANGED <<file, fileCalls, pushed>>
  /\ UNCHANGED <<scanVars, severityVars, invocationVars, traceVars, terminateVars, reportVars, handlerVars>>

\* await fs.stat(filePath) and the test of stats.size; an error goes to the
\* catch, which ends scanFile
StatFile ==
  /\ fpc = "stat"
  /\ fileCalls' = Append(fileCalls, "stat")
  /\ fpc' = IF file.io = "stat throws" \/ TooLarge(file.size) THEN "done" ELSE "read"
  /\ UNCHANGED <<file, pushed>>
  /\ UNCHANGED <<scanVars, severityVars, invocationVars, traceVars, terminateVars, reportVars, handlerVars>>

\* await fs.readFile(filePath, "utf-8")
ReadFile ==
  /\ fpc = "read"
  /\ fileCalls' = Append(fileCalls, "readFile")
  /\ fpc' = IF file.io = "readFile throws" THEN "done" ELSE "scan"
  /\ UNCHANGED <<file, pushed>>
  /\ UNCHANGED <<scanVars, severityVars, invocationVars, traceVars, terminateVars, reportVars, handlerVars>>

\* scanContent(content, options) and the push of the Finding
ScanFile ==
  /\ fpc = "scan"
  /\ fileCalls' = Append(fileCalls, "scanContent")
  /\ pushed' = With(scanContent(file.text, ScanOptions.base64Decode), LAMBDA matches :
                  IF Emits(matches)
                  THEN Append(pushed, Finding("local", "File: ", "File", file.path, file.text,
                                              matches))
                  ELSE pushed)
  /\ fpc' = "done"
  /\ UNCHANGED file
  /\ UNCHANGED <<scanVars, severityVars, invocationVars, traceVars, terminateVars, reportVars, handlerVars>>

NextFile == CheckExtension \/ StatFile \/ ReadFile \/ ScanFile

SpecFile == InitFile /\ [][NextFile]_vars

(***************************************************************************)
(* Claims on scanFile                                                      *)
(***************************************************************************)
\* the extension of the path, in lower case, is one of the known text ones
Allowlisted(p) ==
  LET base == basename(p)
      ext(e) == Len(base) > Len(e) /\ toLowerCase(SubSeq(base, Len(base) - Len(e) + 1, Len(base))) = e
  IN \E i \in 1..Len(textFileExtensions) : ext(textFileExtensions[i])

Called(name) == \E i \in 1..Len(fileCalls) : fileCalls[i] = name

\* C23: scanFile reads a file exactly when its extension is in the allowlist
\* or stat gave a size of at most 10 * 1024 * 1024 bytes, and scans what it
\* could read: a file of another extension is scanned at exactly the limit
\* and skipped at one byte more, where it gives no Finding; a file of a known
\* text extension is read without a look at its size.
C23_ReadsWithinLimit ==
  fpc = "done" =>
    /\ Called("readFile") =
         (Allowlisted(file.path) \/ (file.io # "stat throws" /\ file.size <= FileLimit))
    /\ Called("scanContent") = (Called("readFile") /\ file.io # "readFile throws")
    /\ Allowlisted(file.path) => ~Called("stat")
    /\ ~Called("scanContent") => pushed = <<>>
    /\ (Called("scanContent") /\ file.text = Miner("f").text) => Len(pushed) = 1

\* a file of no known text extension and of exactly the limit was read and
\* scanned and gave a Finding
C23_Witness ==
  /\ fpc = "done"
  /\ ~Allowlisted(file.path)
  /\ file.size = FileLimit
  /\ Called("scanContent")
  /\ Len(pushed) = 1

====
